---- MODULE Spec2Model ----
(***************************************************************************)
(* A model of the acknowledgement tracker and of the test modes of         *)
(* IBCRelayerTest (src/src/tests/IBCRelayerTest.ts) and of the source      *)
(* ledger acknowledgement query (src/src/utils/IBCQueryHelper.ts).         *)
(*                                                                         *)
(* Times are milliseconds, as in the source.  Free text (memos) is a       *)
(* sequence of tokens, so that startsWith and trim are computed.           *)
(***************************************************************************)
EXTENDS Integers, Sequences, FiniteSets, TLC

VARIABLES
    \* ---- waitForAcknowledgement and its two detection strategies
    pc,                 \* position inside waitForAcknowledgement
    now,                \* Date.now()
    startTime,          \* startTime of waitForAcknowledgement
    timeoutSeconds,     \* config.relayer.timeoutSeconds
    ticks,              \* iterations of the polling loop started so far
    maxHeight,          \* maxHeight of searchreceiverChainRecvPacket
    searchQuery,        \* height filter of the last tx_search query issued
    searchResponse,     \* how the last tx_search was answered
    receiverChainRecv,  \* what searchreceiverChainRecvPacket returned last
    ackResponse,        \* how the last source-ledger query was answered
    scanned,            \* block range scanned by findTargetChainTransaction
    returned,           \* the records waitForAcknowledgement has returned
    \* ---- the two ledgers (environment)
    destHeight,         \* height of the destination ledger
    heightAtSample,     \* destination height when maxHeight was sampled
    advances,           \* blocks the destination ledger produced so far
    destTxs,            \* transactions committed on the destination ledger
    srcAck,             \* acknowledgement committed on the source ledger
    aheadCommitted,     \* the delivery was committed 3 blocks ahead of the
                        \* last sampled height before the timeout elapsed
    \* ---- run() and runSingleTransferTest()
    rpc,                \* position inside run() / runSingleTransferTest()
    mode,               \* which of the two was called
    i,                  \* loop index of runBatchTest / runStabilityTest
    transferResult,     \* what sendIBCTransfer returned last
    relayerLogs,        \* this.relayerLogs
    mergedAcks,         \* the record each observation was merged from
    logFile,            \* content of relayer-test-logs.json
    probes,             \* probe submissions attempted so far
    writeFailed,        \* a file write has failed
    \* ---- one call of sendIBCTransfer
    broadcast,          \* what the calls made by sendIBCTransfer did
    sendResult,         \* how the call of sendIBCTransfer ended
    extracted,          \* what extractPacketSequence returned in the call
    \* ---- PacketTransmissionTest.testBatchTransfer
    tpc,                \* position inside testBatchTransfer
    launched,           \* calls of executeSingleTransfer started so far
    pending,            \* the calls whose signAndBroadcast is in flight
    transferResults,    \* what the settled calls resolved to
    batchPassed,        \* what testBatchTransfer returned
    \* ---- the continuous-transfer command
    cpc,                \* position inside the command's action
    maxCount,           \* option --count
    stopOnError,        \* option --stop-on-error
    count,              \* tests started
    successCount,       \* tests that returned a successful observation
    errorCount,         \* tests that failed or crashed
    isShuttingDown,     \* an interrupt asked for the stop
    testStartTime,      \* Date.now() when the test in flight started
    waitUntil,          \* when the timer of the wait between tests fires
    exitCode,           \* the code the process exited with
    exitVia,            \* the process.exit call that ended the process
    interrupts,         \* interrupt signals delivered so far
    countAtInterrupt,   \* count when the first interrupt was delivered
    phaseAtInterrupt,   \* cpc when the first interrupt was delivered
    interruptAt,        \* time of the first interrupt
    logsAtStart,        \* length of relayerLogs when the test started
    \* ---- generatePerformanceMetrics
    loaded,             \* loadExistingLogs has read the log file
    mcalls,             \* calls of generatePerformanceMetrics so far
    metrics,            \* what the last call returned
    lastLog,            \* relayerLogs when the last call started
    prevMetrics,        \* what the call before the last returned
    prevLog,            \* relayerLogs when the call before the last started
    \* ---- the files of saveTestResults and loadExistingLogs
    logFileState,       \* what relayer-test-logs.json is: missing,
                        \* unreadable, corrupt, null or a JSON array
    metricsFile,        \* content of relayer-metrics.json, <<>> while
                        \* there is none
    saveOutcome,        \* how the writes of the last saveTestResults went
    reloaded,           \* what the constructor of a later instance loaded
    \* ---- the two detection paths on one delivery transaction
    deliveryTx,         \* the delivery transaction on the destination ledger
    detected,           \* the acknowledgement record a path made of it
    \* ---- the report made of a finished test
    summary,            \* what generateJSONSummary returned
    \* ---- checkChannelStatus
    channelQuery,       \* what the queries of checkChannelStatus met,
                        \* while the basic test or its failure lasts
    \* ---- runStabilityTest
    consecutiveFailures,    \* the local of that name
    maxConsecutiveFailures, \* the local of that name
    results,            \* success of each iteration so far
    stabilityResult,    \* the result runStabilityTest returned
    \* ---- the connections of the two CosmosClient objects
    clients,            \* the connection each field of each client holds
    open,               \* the connections that are open
    opened,             \* connections opened so far
    \* ---- run_continuous_test.sh in one directory
    pidFile,            \* content of the PID file, NoPid while there is none
    alive,              \* PIDs of the background tests that run
    invocations,        \* the invocations of the script in flight or done
    spawned             \* background processes launched so far

waitVars == <<pc, now, startTime, timeoutSeconds, ticks, maxHeight,
              searchQuery, searchResponse, receiverChainRecv, ackResponse,
              scanned, returned>>
ledgerVars == <<destHeight, heightAtSample, advances, destTxs, srcAck,
                aheadCommitted>>
runVars == <<rpc, mode, i, transferResult, relayerLogs, mergedAcks, logFile,
             probes, writeFailed>>
\* What a test mode leaves alone of the tracker's own state.
trackerVars == <<pc, startTime, timeoutSeconds, ticks, maxHeight,
                 searchQuery, searchResponse, receiverChainRecv, ackResponse,
                 scanned, returned>>
sendVars == <<broadcast, sendResult, extracted>>
\* The state of the operations a specification does not exercise.
transmissionVars == <<tpc, launched, pending, transferResults, batchPassed>>
continuousVars == <<cpc, maxCount, stopOnError, count, successCount,
                    errorCount, isShuttingDown, testStartTime, waitUntil,
                    exitCode, exitVia, interrupts, countAtInterrupt,
                    phaseAtInterrupt, interruptAt, logsAtStart>>
metricsVars == <<loaded, mcalls, metrics, lastLog, prevMetrics, prevLog>>
storeVars == <<logFileState, metricsFile, saveOutcome, reloaded>>
detectVars == <<deliveryTx, detected>>
reportVars == <<summary>>
channelVars == <<channelQuery>>
stabilityVars == <<consecutiveFailures, maxConsecutiveFailures, results,
                   stabilityResult>>
connVars == <<clients, open, opened>>
scriptVars == <<pidFile, alive, invocations, spawned>>
extraVars == <<reportVars, channelVars, stabilityVars, connVars, scriptVars>>
auxVars == <<sendVars, transmissionVars, continuousVars, metricsVars,
             storeVars, detectVars, extraVars>>
vars == <<waitVars, ledgerVars, runVars, auxVars>>

(***************************************************************************)
(* Bounds of the model.                                                    *)
(***************************************************************************)
MaxLatency == 1
MaxTimeoutSeconds == 6
LowHeight == 3
HighHeight == 25
MaxAdvance == 4
TestSequence == 7
batchSize == 2
stabilityTestCount == 1

Latencies == {k * 1000 : k \in 0..MaxLatency}
TimeoutChoices == {MaxTimeoutSeconds - 2, MaxTimeoutSeconds}
InitHeights == {LowHeight, HighHeight}

(***************************************************************************)
(* Program constants.                                                      *)
(***************************************************************************)
pollInterval == 3000
searchSleep == 1000
searchBuffer == 10
defaultHeight == 26500000
tooOldBlocks == 1000
helperSearchDepth == 1000
batchSleep == 2000
stabilityTestInterval == 5000

channelId == "channel-0"
ProbePrefix == "IBC-relay-test-"
Undefined == "undefined"
UndefinedMemo == <<"undefined">>
NoTime == 0 - 1
NoSequence == 0 - 1
NoRange == [lo |-> 0, hi |-> 0]

\* Longest a tick can last: both sleeps and the two delayed queries.
MaxTick == searchSleep + pollInterval + 2 * MaxLatency * 1000
MaxTime == MaxTimeoutSeconds * 1000 + MaxTick

Max(a, b) == IF a >= b THEN a ELSE b

(***************************************************************************)
(* Text.                                                                   *)
(***************************************************************************)
StartsWith(memo, prefix) == Len(memo) > 0 /\ memo[1] = prefix

RECURSIVE TrimLeft(_)
TrimLeft(s) == IF s # <<>> /\ Head(s) = " " THEN TrimLeft(Tail(s)) ELSE s

RECURSIVE TrimRight(_)
TrimRight(s) ==
    IF s # <<>> /\ s[Len(s)] = " "
    THEN TrimRight(SubSeq(s, 1, Len(s) - 1)) ELSE s

Trim(s) == TrimRight(TrimLeft(s))

\* The sender attribute of the message event of a transaction: NoSender
\* when the event has none, else its value.
NoSender == "none"
Null == "null"
Senders == {"", "relayer1"}
Memos == { <<>>, <<ProbePrefix, "1700000000000">>,
           <<"relayed-by:", "val1", " ">> }

(***************************************************************************)
(* searchreceiverChainRecvPacket                                           *)
(***************************************************************************)
\* The height the search works with: the sampled one, or the default.
SearchHeight(h) == IF h = 0 THEN defaultHeight ELSE h

minHeight(h) == Max(1, h - searchBuffer)

maxSearchHeightNoForward(h) == h
maxSearchHeight(h) == h + searchBuffer

\* The height filter of the tx_search query.
SearchWindow(h) == [lo |-> minHeight(h), hi |-> maxSearchHeight(h)]

\* The transactions a tx_search for (sequence, channel, window) matches.
TxSearch(txs, sequence, w) ==
    {t \in txs : /\ t.sequence = sequence
                 /\ t.channel = channelId
                 /\ t.height >= w.lo /\ t.height <= w.hi}

\* order_by desc: the first transaction of the response.
Newest(txs) == CHOOSE t \in txs : \A u \in txs : u.height <= t.height

\* relayerAddress: the sender of a message event, else 'unknown'.
SearchRelayerAddress(tx) ==
    IF tx.sender \notin {NoSender, ""} THEN tx.sender ELSE "unknown"

\* relayerMemo: the decoded memo unless empty or one of the probe memos.
RelayerMemo(memo) ==
    IF Trim(memo) # <<>> /\ ~StartsWith(Trim(memo), ProbePrefix)
    THEN Trim(memo) ELSE UndefinedMemo

\* What the search returns for the first transaction of the response.
SearchResult(tx, h, decoded) ==
    IF h - tx.height > tooOldBlocks
    THEN [found |-> FALSE, txHash |-> Undefined, relayerAddress |-> Undefined,
          memo |-> UndefinedMemo]
    ELSE [found |-> TRUE, txHash |-> tx.hash,
          relayerAddress |-> SearchRelayerAddress(tx),
          memo |-> IF decoded THEN RelayerMemo(tx.memo) ELSE UndefinedMemo]

NullRecv == [found |-> FALSE, txHash |-> Undefined,
             relayerAddress |-> Undefined, memo |-> UndefinedMemo]

(***************************************************************************)
(* waitForAcknowledgement: the records it returns.                         *)
(***************************************************************************)
timeout == timeoutSeconds * 1000

LoopCondForever(t, start, limit) == TRUE
LoopCond(t, start, limit) == t - start < limit

\* Where a tick goes once the search has returned: a match ends the
\* polling; no match, a failed search included, leaves it to the
\* source-ledger query.
NextAfterSearchThrows(response, recv) ==
    IF response = "fail" THEN "pollSleep"
    ELSE IF recv.found THEN "done" ELSE "ackQuery"
NextAfterSearch(response, recv) == IF recv.found THEN "done" ELSE "ackQuery"

\* Where a tick goes once the source-ledger query has been answered.
NextAfterAckQuery(outcome) ==
    IF outcome = "ack" THEN "findTarget" ELSE "pollSleep"

AckFromRecvNoEvidence(recv, sequence, t) ==
    [sequence |-> sequence, acknowledged |-> TRUE, ackTime |-> t,
     relayerAddress |-> Undefined, memo |-> UndefinedMemo,
     targetTxHash |-> Undefined, via |-> "search"]
AckFromRecv(recv, sequence, t) ==
    [sequence |-> sequence, acknowledged |-> TRUE, ackTime |-> t,
     relayerAddress |-> recv.relayerAddress, memo |-> recv.memo,
     targetTxHash |-> recv.txHash, via |-> "search"]

\* The record of a timeout with the label of the last delivery seen.
TimedOutKeepsMemo(sequence) ==
    [sequence |-> sequence, acknowledged |-> FALSE, ackTime |-> NoTime,
     relayerAddress |-> Undefined, memo |-> <<"relayed-by:", "val1">>,
     targetTxHash |-> Undefined, via |-> "timeout"]
TimedOut(sequence) ==
    [sequence |-> sequence, acknowledged |-> FALSE, ackTime |-> NoTime,
     relayerAddress |-> Undefined, memo |-> UndefinedMemo,
     targetTxHash |-> Undefined, via |-> "timeout"]

(***************************************************************************)
(* IBCQueryHelper.queryPacketAcknowledgement / findTargetChainTransaction  *)
(***************************************************************************)
\* The blocks findTargetChainTransaction walks, newest first.
HelperSearchFrom(latestHeight) == Max(1, latestHeight - helperSearchDepth)

\* extractRelayerAddress: the sender attribute of a message event, whatever
\* its value; else the signer of the first message when that is a
\* MsgRecvPacket with a signer; else null.
extractRelayerAddress(tx) ==
    IF tx.sender # NoSender THEN tx.sender
    ELSE IF tx.recvFirst /\ tx.signer # "" THEN tx.signer
    ELSE Null

\* The transactions findTargetChainTransaction accepts: a matching
\* recv_packet event and a relayer address that is truthy.
HelperMatches(txs, sequence, latestHeight) ==
    {t \in txs : /\ t.sequence = sequence
                 /\ t.channel = channelId
                 /\ extractRelayerAddress(t) \notin {"", Null}
                 /\ t.height >= HelperSearchFrom(latestHeight)
                 /\ t.height <= latestHeight}

\* The record queryPacketAcknowledgement hands back once the source ledger
\* holds an acknowledgement: acknowledged whatever the scan found.
AckFromHelperNoAckTime(sequence, txs, latestHeight, scanOk, t) ==
    [sequence |-> sequence, acknowledged |-> TRUE, ackTime |-> NoTime,
     relayerAddress |-> Undefined, memo |-> UndefinedMemo,
     targetTxHash |-> Undefined, via |-> "ack"]
AckFromHelper(sequence, txs, latestHeight, scanOk, t) ==
    LET m == HelperMatches(txs, sequence, latestHeight)
        hit == scanOk /\ m # {}
    IN  [sequence |-> sequence, acknowledged |-> TRUE, ackTime |-> t,
         relayerAddress |-> IF hit THEN extractRelayerAddress(Newest(m))
                            ELSE Undefined,
         memo |-> UndefinedMemo,
         targetTxHash |-> IF hit THEN Newest(m).hash ELSE Undefined,
         via |-> "ack"]

\* The range of blocks a completed scan fetched.
HelperScanned(txs, sequence, latestHeight) ==
    LET m == HelperMatches(txs, sequence, latestHeight)
    IN  [lo |-> IF m # {} THEN Newest(m).height
                ELSE HelperSearchFrom(latestHeight),
         hi |-> latestHeight]

(***************************************************************************)
(* extractPacketSequence.  A raw log is a sequence of tokens: a word of    *)
(* the log or a run of decimal digits.  The seven regular expressions are  *)
(* sequences of elements matched against the tokens as String.match does:  *)
(* the leftmost start, the capture of the first alternative that succeeds. *)
(***************************************************************************)
Word(w) == [w |-> w, d |-> <<>>]
Digits(ds) == [w |-> "digits", d |-> ds]

Words == {"quote", ":", ",", "=", " ", "nl", "packet_", "sequence",
          "send_packet", "value", "packet_src_channel", "text", "digits"}

\* Elements of a pattern: one token of a class, an optional token of a
\* class, any number of tokens of a class, the captured digits.
Lit(ws) == [k |-> "lit", ws |-> ws]
Opt(ws) == [k |-> "opt", ws |-> ws]
Star(ws) == [k |-> "star", ws |-> ws]
Num == [k |-> "num", ws |-> {"digits"}]

Q == Lit({"quote"})
PacketSequence == <<Lit({"packet_"}), Lit({"sequence"})>>
\* \s*"?(\d+)"?
LooseNumber == <<Star({" ", "nl"}), Opt({"quote"}), Num, Opt({"quote"})>>
\* ":"(\d+)"
QuotedNumber == <<Q, Lit({":"}), Q, Num, Q>>

patterns ==
    << <<Q>> \o PacketSequence
           \o <<Q, Lit({","}), Q, Lit({"value"})>> \o QuotedNumber,
       <<Q>> \o PacketSequence \o QuotedNumber,
       PacketSequence \o <<Lit({":"})>> \o LooseNumber,
       <<Q, Lit({"sequence"})>> \o QuotedNumber,
       <<Lit({"sequence"}), Lit({":"})>> \o LooseNumber,
       <<Q, Lit({"packet_src_channel"}), Q, Lit({":"}), Q,
         Star(Words \ {"quote"}), Q, Lit({","}), Q>>
           \o PacketSequence \o QuotedNumber,
       <<Lit({"send_packet"}), Star(Words \ {"nl"})>> \o PacketSequence
           \o <<Lit({"quote", ":", "="})>> \o LooseNumber >>

Min(S) == CHOOSE x \in S : \A y \in S : x <= y

\* The positions the capture can take when elements j.. of the pattern
\* match the log from position pos on.
RECURSIVE MatchFrom(_, _, _, _, _)
MatchFrom(pat, j, s, pos, cap) ==
    IF j > Len(pat) THEN {cap}
    ELSE LET e == pat[j]
             here == pos <= Len(s) /\ s[pos].w \in e.ws
         IN  CASE e.k = "lit" ->
                    IF here THEN MatchFrom(pat, j + 1, s, pos + 1, cap)
                    ELSE {}
               [] e.k = "num" ->
                    IF here THEN MatchFrom(pat, j + 1, s, pos + 1, pos)
                    ELSE {}
               [] e.k = "opt" ->
                    (IF here THEN MatchFrom(pat, j + 1, s, pos + 1, cap)
                     ELSE {}) \cup MatchFrom(pat, j + 1, s, pos, cap)
               [] e.k = "star" ->
                    (IF here THEN MatchFrom(pat, j, s, pos + 1, cap)
                     ELSE {}) \cup MatchFrom(pat, j + 1, s, pos, cap)

\* rawLog.match(pattern): the position of the captured digits, 0 for null.
\* The only backtracking choice that moves the capture is the lazy .*? of
\* the last pattern, which takes the nearest one.
Match(pat, s) ==
    LET starts == {st \in 1..Len(s) : MatchFrom(pat, 1, s, st, 0) # {}}
    IN  IF starts = {} THEN 0
        ELSE Min(MatchFrom(pat, 1, s, Min(starts), 0))

\* parseInt of a run of decimal digits.
RECURSIVE ParseInt(_)
ParseInt(ds) ==
    IF ds = <<>> THEN 0
    ELSE 10 * ParseInt(SubSeq(ds, 1, Len(ds) - 1)) + ds[Len(ds)]

\* rawLog.match(/\d+/g)
RECURSIVE numberMatches(_)
numberMatches(s) ==
    IF s = <<>> THEN <<>>
    ELSE (IF Head(s).w = "digits" THEN <<Head(s).d>> ELSE <<>>)
             \o numberMatches(Tail(s))

plausibleLimit == 1000000

\* The scan of all numbers of the log for one in the plausible range.
RECURSIVE NumberScan(_)
NumberScan(nums) ==
    IF nums = <<>> THEN 0
    ELSE LET num == ParseInt(Head(nums))
         IN  IF num > 0 /\ num < plausibleLimit THEN num
             ELSE NumberScan(Tail(nums))

\* The loop over the patterns from index k on, then the scan.
RECURSIVE PatternLoop(_, _)
PatternLoop(rawLog, k) ==
    IF k > Len(patterns) THEN NumberScan(numberMatches(rawLog))
    ELSE LET m == Match(patterns[k], rawLog)
         IN  IF m # 0 THEN ParseInt(rawLog[m].d)
             ELSE PatternLoop(rawLog, k + 1)

extractPacketSequenceSkipsFirst(rawLog) == PatternLoop(rawLog, 2)
extractPacketSequence(rawLog) == PatternLoop(rawLog, 1)

\* ---- the raw logs a broadcast can answer with
Numerals == {<<0>>, <<TestSequence>>, <<0, TestSequence>>,
             <<1, 0, 0, 0, 0, 0, 0>>}

QuoteTok == Word("quote")
Name(parts) == [k \in 1..Len(parts) |-> Word(parts[k])]
Quoted(n) == <<QuoteTok, Digits(n), QuoteTok>>

Fragments ==
    UNION { { \* {"key":"packet_sequence","value":"n"}
              Name(<<"quote", "packet_", "sequence", "quote", ",", "quote",
                     "value", "quote", ":">>) \o Quoted(n),
              \* "packet_sequence":"n"
              Name(<<"quote", "packet_", "sequence", "quote", ":">>)
                  \o Quoted(n),
              \* packet_sequence: n
              Name(<<"packet_", "sequence", ":", " ">>) \o <<Digits(n)>>,
              \* "sequence":"n"
              Name(<<"quote", "sequence", "quote", ":">>) \o Quoted(n),
              \* sequence:n
              Name(<<"sequence", ":">>) \o <<Digits(n)>>,
              \* send_packet ... packet_sequence=n
              Name(<<"send_packet", "text", "packet_", "sequence", "=">>)
                  \o <<Digits(n)>>,
              \* packet_sequence=n
              Name(<<"packet_", "sequence", "=">>) \o <<Digits(n)>>,
              \* a number of the log that is no sequence
              <<Digits(n)>> } : n \in Numerals }
      \cup { Name(<<"text">>), Name(<<"nl">>),
             Name(<<"quote", "packet_src_channel", "quote", ":", "quote",
                    "text", "quote", ",">>),
             Name(<<"quote", "packet_", "sequence", "quote", ":", "quote">>) }

\* Two runs of digits side by side would be one run.
WellFormed(s) ==
    \A k \in 1..(Len(s) - 1) : ~(s[k].w = "digits" /\ s[k + 1].w = "digits")

RawLogs ==
    { s \in {<<>>} \cup Fragments \cup {f \o g : f, g \in Fragments} :
        WellFormed(s) }

(***************************************************************************)
(* sendIBCTransfer and the observations the test modes build.              *)
(***************************************************************************)

\* The three ways sendIBCTransfer returns: an exception was caught, the
\* broadcast code was not 0, the broadcast code was 0.
TransferThrown(t) ==
    [txHash |-> "", success |-> FALSE, sequence |-> NoSequence,
     error |-> "Exception during IBC transfer", timestamp |-> t]
TransferRejected(t) ==
    [txHash |-> "SRC", success |-> FALSE, sequence |-> NoSequence,
     error |-> "Transaction failed with code", timestamp |-> t]
TransferSent(sequence, t) ==
    [txHash |-> "SRC", success |-> TRUE, sequence |-> sequence,
     error |-> Undefined, timestamp |-> t]

\* What the calls made by sendIBCTransfer do: getHeight answers or
\* throws, signAndBroadcast answers with a code and a raw log or throws.
UndefinedLog == <<Word("undefined")>>
RejectedCode == 5
Broadcast(height, sign, code, rawLog) ==
    [height |-> height, sign |-> sign, code |-> code, rawLog |-> rawLog]
NoBroadcast == Broadcast("none", "none", 0, <<>>)

Broadcasts ==
    {Broadcast("throws", "none", 0, <<>>),
     Broadcast("ok", "throws", 0, <<>>)}
        \cup {Broadcast("ok", "answered", c, l) :
                 c \in {0, RejectedCode}, l \in RawLogs \cup {UndefinedLog}}

\* result.rawLog || ''
OrEmpty(rawLog) == IF rawLog = UndefinedLog THEN <<>> ELSE rawLog

\* The sequence extractPacketSequence returns inside the call, if called.
ExtractedIn(b) ==
    IF b.height = "ok" /\ b.sign = "answered" /\ b.code = 0
    THEN extractPacketSequence(OrEmpty(b.rawLog))
    ELSE NoSequence

\* The try block: it returns a result or raises.
Raised == [raised |-> TRUE, value |-> TransferThrown(0)]
Returns(v) == [raised |-> FALSE, value |-> v]
sendIBCTransferTry(b, t) ==
    IF b.height = "throws" \/ b.sign = "throws" THEN Raised
    ELSE IF b.code # 0 THEN Returns(TransferRejected(t))
    ELSE Returns(TransferSent(ExtractedIn(b), t))

\* The whole call: the catch block turns an exception into a result.
sendIBCTransferCallRethrows(b, t) == sendIBCTransferTry(b, t)
sendIBCTransferCall(b, t) ==
    IF sendIBCTransferTry(b, t).raised THEN Returns(TransferThrown(t))
    ELSE sendIBCTransferTry(b, t)

\* The broadcasts the test modes are run against: a log without a
\* sequence and a log with the sequence of the probe.
RunBroadcasts ==
    {Broadcast("throws", "none", 0, <<>>),
     Broadcast("ok", "answered", RejectedCode, <<>>),
     Broadcast("ok", "answered", 0, <<>>),
     Broadcast("ok", "answered", 0,
               Name(<<"quote", "packet_", "sequence", "quote", ",", "quote",
                      "value", "quote", ":">>) \o Quoted(<<TestSequence>>))}

sendIBCTransfer(t) ==
    {sendIBCTransferCall(b, t).value : b \in RunBroadcasts}

NotCalled == Returns(TransferThrown(0 - 1))

NoTransfer == TransferThrown(0)

\* The delivery a relayer commits for a probe.
DeliveryTx(sequence, h) ==
    [hash |-> "TX1", height |-> h, sequence |-> sequence,
     channel |-> channelId, sender |-> "relayer1", signer |-> "",
     recvFirst |-> TRUE, memo |-> <<"relayed-by:", "val1", " ">>]

\* The duration of a wait that times out with queries answered at once.
Tick == searchSleep + pollInterval
TimeoutElapsed(limit) == ((limit + Tick - 1) \div Tick) * Tick

\* The records a call of waitForAcknowledgement started at `start` can
\* return, each with the time of its return: a match of the search in the
\* first tick, a match of the source-ledger query in the first tick, the
\* timeout.
WaitOutcomes(sequence, start, limit) ==
    { [ack |-> AckFromRecv(
                  SearchResult(DeliveryTx(sequence, LowHeight), LowHeight,
                               TRUE),
                  sequence, start + searchSleep),
       at |-> start + searchSleep],
      [ack |-> AckFromHelper(sequence, {}, LowHeight, TRUE,
                             start + searchSleep),
       at |-> start + searchSleep],
      [ack |-> TimedOut(sequence), at |-> start + TimeoutElapsed(limit)] }

NoAck == TimedOut(NoSequence)

\* runBasicRelayTest: the observation of a probe that timed out.
BasicTimeoutLog(tr, t, limit) ==
    [testTime |-> t, txHash |-> tr.txHash, packetSequence |-> tr.sequence,
     success |-> FALSE, latency |-> limit,
     targetChainTxHash |-> Undefined, relayerSigner |-> Undefined,
     memoIdentifier |-> UndefinedMemo,
     errorMessage |-> "Timeout waiting for acknowledgement"]

\* runBasicRelayTest: the observation of an acknowledged probe.
BasicSuccessLog(tr, ack, t) ==
    [testTime |-> t, txHash |-> tr.txHash, packetSequence |-> tr.sequence,
     success |-> TRUE,
     latency |-> IF ack.ackTime # NoTime
                 THEN ack.ackTime - tr.timestamp ELSE 0,
     targetChainTxHash |-> ack.targetTxHash,
     relayerSigner |-> ack.relayerAddress,
     memoIdentifier |-> ack.memo,
     errorMessage |-> Undefined]

\* runBatchTest, runStabilityTest, runSingleTransferTest: the observation
\* merged from a transfer and the record waitForAcknowledgement returned.
MergeLog(tr, ack, t, limit) ==
    [testTime |-> t, txHash |-> tr.txHash, packetSequence |-> tr.sequence,
     success |-> ack.acknowledged,
     latency |-> IF ack.ackTime # NoTime
                 THEN ack.ackTime - tr.timestamp ELSE limit,
     targetChainTxHash |-> ack.targetTxHash,
     relayerSigner |-> ack.relayerAddress,
     memoIdentifier |-> ack.memo,
     errorMessage |-> IF ack.acknowledged THEN Undefined
                      ELSE "Acknowledgement timeout"]

\* runSingleTransferTest: the observation of a rejected submission.
FailedLog(tr, t) ==
    [testTime |-> t,
     txHash |-> IF tr.txHash # "" THEN tr.txHash ELSE "N/A",
     packetSequence |-> 0, success |-> FALSE, latency |-> 0,
     targetChainTxHash |-> Undefined, relayerSigner |-> Undefined,
     memoIdentifier |-> UndefinedMemo,
     errorMessage |-> "IBC Transfer failed"]

(***************************************************************************)
(* generatePerformanceMetrics.  Arrays live in a heap: this.relayerLogs    *)
(* and the array of each group under the group's moniker;                  *)
(* Array.prototype.sort writes the array it is called on.                  *)
(***************************************************************************)
MaxStoredLogs == 2
hourMs == 3600000
minUptimeTenths == 1

\* a / b as a fraction in lowest terms.
RECURSIVE GCD(_, _)
GCD(a, b) == IF b = 0 THEN a ELSE GCD(b, a % b)
Ratio(a, b) ==
    IF a = 0 THEN [num |-> 0, den |-> 1]
    ELSE [num |-> a \div GCD(a, b), den |-> b \div GCD(a, b)]

\* if (log.memoIdentifier)
TruthyAlways(memo) == TRUE
Truthy(memo) == memo # UndefinedMemo /\ memo # <<>>

\* memoIdentifier.replace('relayed-by:', ''): the first occurrence goes.
RECURSIVE Moniker(_)
Moniker(memo) ==
    IF memo = <<>> THEN <<>>
    ELSE IF Head(memo) = "relayed-by:" THEN Tail(memo)
    ELSE <<Head(memo)>> \o Moniker(Tail(memo))

Labelled(log) == Truthy(log.memoIdentifier)

\* The keys of validatorGroups in insertion order.
RECURSIVE GroupOrder(_, _)
GroupOrder(logs, seen) ==
    IF logs = <<>> THEN seen
    ELSE LET l == Head(logs)
             fresh == /\ Labelled(l)
                      /\ \A k \in 1..Len(seen) :
                            seen[k] # Moniker(l.memoIdentifier)
         IN  GroupOrder(Tail(logs),
                        IF fresh THEN Append(seen, Moniker(l.memoIdentifier))
                        ELSE seen)

InGroupAnyLabel(l, moniker) == Labelled(l)
InGroup(l, moniker) == Labelled(l) /\ Moniker(l.memoIdentifier) = moniker
\* The array validatorGroups holds for a moniker.
GroupArray(logs, moniker) ==
    SelectSeq(logs, LAMBDA l : InGroup(l, moniker))

\* logs.sort((a, b) => a.testTime - b.testTime): stable, ascending.
RECURSIVE InsertByTime(_, _)
InsertByTime(sorted, l) ==
    IF sorted = <<>> THEN <<l>>
    ELSE IF sorted[Len(sorted)].testTime <= l.testTime
         THEN Append(sorted, l)
         ELSE Append(InsertByTime(SubSeq(sorted, 1, Len(sorted) - 1), l),
                     sorted[Len(sorted)])
RECURSIVE SortByTime(_)
SortByTime(logs) ==
    IF logs = <<>> THEN <<>>
    ELSE InsertByTime(SortByTime(SubSeq(logs, 1, Len(logs) - 1)),
                      logs[Len(logs)])

\* The arrays of the heap: this.relayerLogs and one per group.
LogArray == <<"this", <<"relayerLogs">>>>
GroupArrayOf(moniker) == <<"group", moniker>>

\* The array the sort inside calculateUptimeHours writes.
SortTargetLog(moniker) == LogArray
SortTarget(moniker) == GroupArrayOf(moniker)

\* calculateUptimeHours on a sorted array, in hours.
calculateUptimeHours(sorted) ==
    IF sorted = <<>> THEN Ratio(0, 1)
    ELSE LET span == sorted[Len(sorted)].testTime - sorted[1].testTime
         IN  IF span * 10 < minUptimeTenths * hourMs
             THEN Ratio(minUptimeTenths, 10)
             ELSE Ratio(span, hourMs)

RECURSIVE ContinuousFrom(_, _, _)
ContinuousFrom(logs, current, maxContinuous) ==
    IF logs = <<>> THEN maxContinuous
    ELSE IF ~Head(logs).success
         THEN ContinuousFrom(Tail(logs), current + 1,
                             Max(maxContinuous, current + 1))
         ELSE ContinuousFrom(Tail(logs), 0, maxContinuous)
calculateContinuousFailuresCountsAll(logs) ==
    Len(SelectSeq(logs, LAMBDA l : ~l.success))
calculateContinuousFailures(logs) == ContinuousFrom(logs, 0, 0)

RECURSIVE Sum(_)
Sum(ns) == IF ns = <<>> THEN 0 ELSE Head(ns) + Sum(Tail(ns))
Latency(logs) == [k \in 1..Len(logs) |-> logs[k].latency]
Largest(ns) == CHOOSE x \in {ns[k] : k \in 1..Len(ns)} :
                  \A k \in 1..Len(ns) : ns[k] <= x
Smallest(ns) == CHOOSE x \in {ns[k] : k \in 1..Len(ns)} :
                   \A k \in 1..Len(ns) : x <= ns[k]

\* ---- Number arithmetic (IEEE 754 binary64, round to nearest, ties to
\* even).  A positive value is m * 2^e, m a mantissaBits-bit integer
\* written most significant bit first; an integer n is Divide(n, 1).
mantissaBits == 53
limbBits == mantissaBits \div 3 + 1
Zero == [m |-> <<>>, e |-> 0]

\* The integer a bit string of at most limbBits bits writes.
RECURSIVE Value(_)
Value(bits) ==
    IF bits = <<>> THEN 0
    ELSE IF Len(bits) = 1 THEN bits[1]
    ELSE LET h == Len(bits) \div 2
         IN  Value(SubSeq(bits, 1, h)) * 2^(Len(bits) - h)
               + Value(SubSeq(bits, h + 1, Len(bits)))
\* n written on `width` bits, and on as many bits as it needs.
BitsOf(n, width) == [j \in 1..width |-> (n \div 2^(width - j)) % 2]
Width(n) == CHOOSE w \in 0..30 : n < 2^w /\ (w = 0 \/ n >= 2^(w - 1))
Binary(n) == BitsOf(n, Width(n))

\* bits + 1; one bit longer when every bit was set.
Increment(bits) ==
    LET zeros == {j \in 1..Len(bits) : bits[j] = 0}
        last == CHOOSE j \in zeros : \A z \in zeros : z <= j
    IN  IF zeros = {} THEN <<1>> \o [j \in 1..Len(bits) |-> 0]
        ELSE [j \in 1..Len(bits) |->
                IF j < last THEN bits[j] ELSE IF j = last THEN 1 ELSE 0]

\* Rounding of bits * 2^e plus a dropped tail: `half` is the first dropped
\* bit, `more` tells whether anything below it is set.
RoundToEven(bits, e, half, more) ==
    LET up == half = 1 /\ (more \/ bits[Len(bits)] = 1)
        inc == Increment(bits)
    IN  IF ~up THEN [m |-> bits, e |-> e]
        ELSE IF Len(inc) > Len(bits)
             THEN [m |-> SubSeq(inc, 1, Len(bits)), e |-> e + 1]
             ELSE [m |-> inc, e |-> e]

\* a and b scaled by powers of two until b <= a < 2b.
RECURSIVE Scale(_, _, _)
Scale(a, b, e) ==
    IF a < b THEN Scale(2 * a, b, e - 1)
    ELSE IF a >= 2 * b THEN Scale(a, 2 * b, e + 1)
    ELSE [a |-> a, b |-> b, e |-> e]

\* (r * 2^j) % b: the remainder of the long division of r by b after j
\* bits of the quotient.
Remainder(r, b, j) ==
    IF j <= limbBits THEN (r * (2^j % b)) % b
    ELSE IF j <= 2 * limbBits
         THEN (((r * (2^limbBits % b)) % b) * (2^(j - limbBits) % b)) % b
         ELSE (((((r * (2^limbBits % b)) % b) * (2^limbBits % b)) % b)
                 * (2^(j - 2 * limbBits) % b)) % b

\* a / b on two integers, a >= 0, b > 0.
Divide(a, b) ==
    IF a = 0 THEN Zero
    ELSE LET s == Scale(a, b, 0)
             r == s.a - s.b
             bits == [j \in 1..mantissaBits |->
                        IF j = 1 THEN 1
                        ELSE IF 2 * Remainder(r, s.b, j - 2) >= s.b
                             THEN 1 ELSE 0]
             rem == Remainder(r, s.b, mantissaBits - 1)
             half == IF 2 * rem >= s.b THEN 1 ELSE 0
         IN  RoundToEven(bits, s.e - (mantissaBits - 1), half,
                         2 * rem - half * s.b > 0)

\* bits * c, c a small positive integer, limb by limb from the least
\* significant limb up.
TimesSmall(bits, c) ==
    LET lo == Value(SubSeq(bits, Len(bits) - limbBits + 1, Len(bits))) * c
        mid == Value(SubSeq(bits, Len(bits) - 2 * limbBits + 1,
                            Len(bits) - limbBits)) * c
                 + lo \div 2^limbBits
        hi == Value(SubSeq(bits, 1, Len(bits) - 2 * limbBits)) * c
                + mid \div 2^limbBits
    IN  Binary(hi) \o BitsOf(mid % 2^limbBits, limbBits)
                   \o BitsOf(lo % 2^limbBits, limbBits)

\* x * c, c a small positive integer.
Multiply(x, c) ==
    IF x = Zero THEN Zero
    ELSE LET p == TimesSmall(x.m, c)
             extra == Len(p) - mantissaBits
         IN  IF extra = 0 THEN [m |-> p, e |-> x.e]
             ELSE RoundToEven(SubSeq(p, 1, mantissaBits), x.e + extra,
                              p[mantissaBits + 1],
                              \E k \in (mantissaBits + 2)..Len(p) : p[k] = 1)

\* (successful.length / logs.length) * 100
\* evaluated once for the group sizes a stored log plus one observation
\* can have.
SuccessRates ==
    [n \in 1..(MaxStoredLogs + 1) |->
        [k \in 0..n |-> Multiply(Divide(k, n), 100)]]
SuccessRate(k, n) ==
    IF n \in DOMAIN SuccessRates THEN SuccessRates[n][k]
    ELSE Multiply(Divide(k, n), 100)

\* logs.filter((l) => l.success)
SuccessfulKeepsAll(logs) == logs
Successful(logs) == SelectSeq(logs, LAMBDA l : l.success)

\* The entry of one group: `logs` is the group's array before the sort
\* of calculateUptimeHours, `after` the same array once it has run.
GroupMetrics(moniker, logs, after) ==
    LET successful == Successful(logs)
        failed == SelectSeq(logs, LAMBDA l : ~l.success)
        latencies == Latency(successful)
    IN  [validatorMoniker |-> moniker,
         totalTests |-> Len(logs),
         successfulRelays |-> Len(successful),
         failedRelays |-> Len(failed),
         averageLatency |-> IF Len(successful) > 0
                            THEN Ratio(Sum(latencies), Len(successful))
                            ELSE Ratio(0, 1),
         maxLatency |-> IF Len(latencies) > 0 THEN Largest(latencies) ELSE 0,
         minLatency |-> IF Len(latencies) > 0 THEN Smallest(latencies) ELSE 0,
         successRate |-> SuccessRate(Len(successful), Len(logs)),
         uptimeHours |-> calculateUptimeHours(after),
         continuousFailures |-> calculateContinuousFailures(after),
         lastActiveTime |-> after[Len(after)].testTime]

\* The heap once the groups have been built.
Grouped(logs) ==
    [a \in {LogArray} \cup {GroupArrayOf(GroupOrder(logs, <<>>)[k]) :
                               k \in 1..Len(GroupOrder(logs, <<>>))} |->
        IF a = LogArray THEN logs ELSE GroupArray(logs, a[2])]

\* validatorGroups.forEach from group k on: the heap and the metrics.
RECURSIVE MetricsLoop(_, _, _, _)
MetricsLoop(heap, order, k, acc) ==
    IF k > Len(order) THEN [heap |-> heap, metrics |-> acc]
    ELSE LET own == GroupArrayOf(order[k])
             target == SortTarget(order[k])
             sorted == [heap EXCEPT ![target] = SortByTime(heap[target])]
         IN  MetricsLoop(sorted, order, k + 1,
                         Append(acc, GroupMetrics(order[k], heap[own],
                                                  SortByTime(heap[own]))))

generatePerformanceMetrics(logs) ==
    MetricsLoop(Grouped(logs), GroupOrder(logs, <<>>), 1, <<>>)

\* ---- the logs a log file can hold
MetricMemos == {UndefinedMemo, <<"relayed-by:", "val1">>, <<"val2">>}
Observation(t, ok, latency, memo) ==
    [testTime |-> t, txHash |-> "SRC", packetSequence |-> TestSequence,
     success |-> ok, latency |-> latency,
     targetChainTxHash |-> Undefined, relayerSigner |-> Undefined,
     memoIdentifier |-> memo,
     errorMessage |-> IF ok THEN Undefined ELSE "Acknowledgement timeout"]
\* An acknowledged probe logged at t has taken t, another the timeout.
Observations ==
    {Observation(t, ok, IF ok THEN t ELSE MaxTimeoutSeconds * 1000, m) :
        t \in {1000, 2000}, ok \in BOOLEAN, m \in MetricMemos}
RECURSIVE LogsOfLength(_)
LogsOfLength(n) ==
    IF n = 0 THEN {<<>>}
    ELSE {Append(l, o) : l \in LogsOfLength(n - 1), o \in Observations}
StoredLogs == UNION {LogsOfLength(n) : n \in 0..MaxStoredLogs}

\* ---- the two files.  A JSON object is the function from the keys it has
\* to their values; a Date is written as its ISO string.
LogFields == {"testTime", "txHash", "packetSequence", "success", "latency",
              "targetChainTxHash", "relayerSigner", "memoIdentifier",
              "errorMessage"}
OptionalFields == {"targetChainTxHash", "relayerSigner", "errorMessage"}
DefinedOnlyRequired(log, f) ==
    f \notin OptionalFields \cup {"memoIdentifier"}
Defined(log, f) ==
    IF f = "memoIdentifier" THEN log[f] # UndefinedMemo
    ELSE IF f \in OptionalFields THEN log[f] # Undefined
    ELSE TRUE

\* JSON.stringify of an observation: a property that is undefined is left
\* out, the Date becomes its ISO string.
ToJSON(log) ==
    [f \in {g \in DOMAIN log : Defined(log, g)} |->
        IF f = "testTime" THEN <<"iso", log[f]>> ELSE log[f]]

\* saveTestResults: the text written to the log file.
SavedLogs(logs) == [k \in 1..Len(logs) |-> ToJSON(logs[k])]

\* JSON.stringify(metrics, null, 2)
SavedMetrics(ms) ==
    [k \in 1..Len(ms) |->
        [ms[k] EXCEPT !.lastActiveTime = <<"iso", ms[k].lastActiveTime>>]]

\* The reviver of loadExistingLogs: a testTime that is a string becomes a
\* Date again.
Revive(key, value) == IF key = "testTime" THEN value[2] ELSE value

\* JSON.parse(data, reviver) on the text of an array of observations; a
\* property the object does not have reads as undefined.
Parse(content) ==
    [k \in 1..Len(content) |->
        [f \in LogFields |->
            IF f \in DOMAIN content[k] THEN Revive(f, content[k][f])
            ELSE IF f = "memoIdentifier" THEN UndefinedMemo
            ELSE Undefined]]

\* The try block of loadExistingLogs: readFileSync throws on a file that
\* cannot be read, JSON.parse on text that is no JSON, and .length on the
\* null the text 'null' parses to.
loadExistingLogsTry(state, content) ==
    IF state = "missing" THEN [raised |-> FALSE, logs |-> <<>>]
    ELSE IF state \in {"unreadable", "corrupt", "null"}
         THEN [raised |-> TRUE, logs |-> <<>>]
         ELSE [raised |-> FALSE, logs |-> Parse(content)]
\* The whole call: the catch block warns and empties the log.
loadExistingLogsRethrows(state, content) == loadExistingLogsTry(state, content)
loadExistingLogs(state, content) ==
    IF loadExistingLogsTry(state, content).raised
    THEN [raised |-> FALSE, logs |-> <<>>]
    ELSE loadExistingLogsTry(state, content)

\* The try block of saveTestResults: the log file is written, the metrics
\* are generated, the metrics file is written; `w` tells which write, if
\* any, throws.
WriteOutcomes == {"ok", "logFails", "metricsFails"}
saveTestResultsTry(w, logs, file, state, mfile) ==
    LET r == generatePerformanceMetrics(logs)
    IN  [raised |-> w # "ok",
         logs |-> IF w = "logFails" THEN logs ELSE r.heap[LogArray],
         logFile |-> IF w = "logFails" THEN file ELSE SavedLogs(logs),
         logFileState |-> IF w = "logFails" THEN state ELSE "json",
         metricsFile |-> IF w = "ok" THEN SavedMetrics(r.metrics) ELSE mfile]
\* The whole call: the catch block logs the error.
saveTestResultsRethrows(w, logs, file, state, mfile) ==
    saveTestResultsTry(w, logs, file, state, mfile)
saveTestResults(w, logs, file, state, mfile) ==
    [saveTestResultsTry(w, logs, file, state, mfile) EXCEPT !.raised = FALSE]

\* The log files an earlier run can have left.
Files ==
    {[state |-> st, content |-> <<>>] :
        st \in {"unreadable", "corrupt", "null"}}
      \cup {[state |-> "json", content |-> SavedLogs(l)] : l \in StoredLogs}

NoTx == [hash |-> Undefined]
NotDetected == [via |-> "none"]
DetectIdle ==
    /\ deliveryTx = NoTx
    /\ detected = NotDetected

NotReloaded == [done |-> FALSE, logs |-> <<>>]

NoSummary == [done |-> FALSE]
ReportIdle == summary = NoSummary

NoQuery == [done |-> FALSE]
ChannelIdle == channelQuery = NoQuery

NoResult == [done |-> FALSE]
StabilityIdle ==
    /\ consecutiveFailures = 0
    /\ maxConsecutiveFailures = 0
    /\ results = <<>>
    /\ stabilityResult = NoResult

\* The two clients of a test and the connections a client keeps.
ClientNames == {"votaClient", "receiverChainClient"}
ConnectionFields == {"tmClient", "stargateClient", "signingClient"}
NoConnection == 0 - 1
Unconnected == [f \in ConnectionFields |-> NoConnection]
ConnIdle ==
    /\ clients = [c \in ClientNames |-> Unconnected]
    /\ open = {}
    /\ opened = 0

NoPid == 0 - 1
ScriptIdle ==
    /\ pidFile = NoPid
    /\ alive = {}
    /\ invocations = <<>>
    /\ spawned = 0
StoreIdle ==
    /\ logFileState = "missing"
    /\ metricsFile = <<>>
    /\ saveOutcome = "none"
    /\ reloaded = NotReloaded

SendIdle ==
    /\ broadcast = NoBroadcast
    /\ sendResult = NotCalled
    /\ extracted = NoSequence

\* The operations a specification does not exercise have not started.
TransmissionIdle ==
    /\ tpc = "idle"
    /\ launched = 0
    /\ pending = {}
    /\ transferResults = {}
    /\ batchPassed = FALSE

NoExit == 0 - 1
ContinuousIdle ==
    /\ cpc = "idle"
    /\ maxCount = 0
    /\ stopOnError = FALSE
    /\ count = 0
    /\ successCount = 0
    /\ errorCount = 0
    /\ isShuttingDown = FALSE
    /\ testStartTime = 0
    /\ waitUntil = 0
    /\ exitCode = NoExit
    /\ exitVia = "none"
    /\ interrupts = 0
    /\ countAtInterrupt = 0
    /\ phaseAtInterrupt = "none"
    /\ interruptAt = 0
    /\ logsAtStart = 0

MetricsIdle ==
    /\ loaded = FALSE
    /\ mcalls = 0
    /\ metrics = <<>>
    /\ lastLog = <<>>
    /\ prevMetrics = <<>>
    /\ prevLog = <<>>

InitAux ==
    /\ SendIdle /\ TransmissionIdle /\ ContinuousIdle /\ MetricsIdle
    /\ StoreIdle /\ DetectIdle /\ ReportIdle
    /\ ChannelIdle /\ StabilityIdle /\ ConnIdle /\ ScriptIdle

InitTest ==
    /\ rpc = "idle"
    /\ mode = "none"
    /\ i = 0
    /\ transferResult = NoTransfer
    /\ relayerLogs = <<>>
    /\ mergedAcks = <<>>
    /\ logFile = <<>>
    /\ probes = 0
    /\ writeFailed = FALSE

(***************************************************************************)
(* The ledgers.                                                            *)
(***************************************************************************)
OurTxs == {t \in destTxs : t.sequence = TestSequence /\ t.channel = channelId}
Delivered == OurTxs # {}

\* A packet of another channel with the same sequence, committed earlier.
ForeignTx(h) ==
    [hash |-> "TXF", height |-> h, sequence |-> TestSequence,
     channel |-> "channel-9", sender |-> "relayer9", signer |-> "",
     recvFirst |-> TRUE, memo |-> <<"relayed-by:", "val9">>]

DestAdvance ==
    /\ pc # "done"
    /\ advances < MaxAdvance
    /\ destHeight' = destHeight + 1
    /\ advances' = advances + 1
    /\ UNCHANGED <<heightAtSample, destTxs, srcAck, aheadCommitted>>
    /\ UNCHANGED waitVars
    /\ UNCHANGED <<runVars, auxVars>>

\* The relayer delivers the packet: a new block holds the recv_packet tx.
Deliver ==
    /\ pc # "done"
    /\ ~Delivered
    /\ advances < MaxAdvance
    /\ \E sender \in Senders, memo \in Memos :
          destTxs' = destTxs \cup
              {[hash |-> "TX1", height |-> destHeight + 1,
                sequence |-> TestSequence, channel |-> channelId,
                sender |-> sender, signer |-> "", recvFirst |-> TRUE,
                memo |-> memo]}
    /\ destHeight' = destHeight + 1
    /\ advances' = advances + 1
    /\ aheadCommitted' = (/\ ticks > 0
                          /\ maxHeight = heightAtSample
                          /\ destHeight + 1 = maxHeight + 3
                          /\ now - startTime < timeout)
    /\ UNCHANGED <<heightAtSample, srcAck>>
    /\ UNCHANGED waitVars
    /\ UNCHANGED <<runVars, auxVars>>

\* The relayer brings the acknowledgement back to the source ledger.
AckRelayed ==
    /\ pc # "done"
    /\ Delivered
    /\ ~srcAck
    /\ srcAck' = TRUE
    /\ UNCHANGED <<destHeight, heightAtSample, advances, destTxs,
                   aheadCommitted>>
    /\ UNCHANGED waitVars
    /\ UNCHANGED <<runVars, auxVars>>

(***************************************************************************)
(* waitForAcknowledgement, step by step.                                   *)
(***************************************************************************)
\* while (Date.now() - startTime < timeout): a tick starts; the search
\* first sleeps for a second.
TickStart ==
    /\ pc = "loop"
    /\ LoopCond(now, startTime, timeout)
    /\ now + searchSleep <= MaxTime
    /\ ticks' = ticks + 1
    /\ now' = now + searchSleep
    /\ pc' = "getHeight"
    /\ ackResponse' = "none"
    /\ searchResponse' = "none"
    /\ UNCHANGED <<startTime, timeoutSeconds, maxHeight, searchQuery,
                   receiverChainRecv, scanned, returned>>
    /\ UNCHANGED <<ledgerVars, runVars, auxVars>>

\* The loop ends on the timeout.
TimeoutReached ==
    /\ pc = "loop"
    /\ ~LoopCond(now, startTime, timeout)
    /\ returned' = Append(returned, TimedOut(TestSequence))
    /\ pc' = "done"
    /\ UNCHANGED <<now, startTime, timeoutSeconds, ticks, maxHeight,
                   searchQuery, searchResponse, receiverChainRecv,
                   ackResponse, scanned>>
    /\ UNCHANGED <<ledgerVars, runVars, auxVars>>

\* The height is read from the client, else from /status, else it stays 0
\* and the default is used; the tx_search query is then sent.
GetHeight ==
    /\ pc = "getHeight"
    /\ \E got \in BOOLEAN :
          maxHeight' = SearchHeight(IF got THEN destHeight ELSE 0)
    /\ heightAtSample' = destHeight
    /\ searchQuery' = SearchWindow(maxHeight')
    /\ pc' = "txSearch"
    /\ UNCHANGED <<now, startTime, timeoutSeconds, ticks, searchResponse,
                   receiverChainRecv, ackResponse, scanned, returned>>
    /\ UNCHANGED <<destHeight, advances, destTxs, srcAck, aheadCommitted>>
    /\ UNCHANGED <<runVars, auxVars>>

\* The tx_search is answered (or fails); a match ends the polling.
TxSearchAnswered ==
    /\ pc = "txSearch"
    /\ \E d \in Latencies, ok \in BOOLEAN, decoded \in BOOLEAN :
          LET m == TxSearch(destTxs, TestSequence, SearchWindow(maxHeight))
              recv == IF ok /\ m # {}
                      THEN SearchResult(Newest(m), maxHeight, decoded)
                      ELSE NullRecv
          IN  /\ now + d <= MaxTime
              /\ now' = now + d
              /\ searchResponse' = IF ok THEN "ok" ELSE "fail"
              /\ receiverChainRecv' = recv
              /\ pc' = NextAfterSearch(searchResponse', recv)
              /\ returned' = IF pc' = "done"
                             THEN Append(returned,
                                     AckFromRecv(recv, TestSequence, now'))
                             ELSE returned
    /\ UNCHANGED <<startTime, timeoutSeconds, ticks, maxHeight, searchQuery,
                   ackResponse, scanned>>
    /\ UNCHANGED <<ledgerVars, runVars, auxVars>>

\* The abciQuery on the source ledger: it throws, answers with a non-zero
\* code, or, when the acknowledgement is committed, answers with it.
AckQueryAnswered ==
    /\ pc = "ackQuery"
    /\ \E d \in Latencies, outcome \in {"throw", "nonzero", "ack"} :
          /\ outcome = "ack" => srcAck
          /\ now + d <= MaxTime
          /\ now' = now + d
          /\ ackResponse' = outcome
          /\ pc' = NextAfterAckQuery(outcome)
    /\ UNCHANGED <<startTime, timeoutSeconds, ticks, maxHeight, searchQuery,
                   searchResponse, receiverChainRecv, scanned, returned>>
    /\ UNCHANGED <<ledgerVars, runVars, auxVars>>

\* findTargetChainTransaction walks the destination blocks; the record is
\* returned as acknowledged.
FindTarget ==
    /\ pc = "findTarget"
    /\ \E scanOk \in BOOLEAN :
          /\ returned' = Append(returned,
                AckFromHelper(TestSequence, destTxs, destHeight, scanOk, now))
          /\ scanned' = IF scanOk
                        THEN HelperScanned(destTxs, TestSequence, destHeight)
                        ELSE scanned
    /\ pc' = "done"
    /\ UNCHANGED <<now, startTime, timeoutSeconds, ticks, maxHeight, searchQuery,
                   searchResponse, receiverChainRecv, ackResponse>>
    /\ UNCHANGED <<ledgerVars, runVars, auxVars>>

\* await this.sleep(pollInterval)
PollSleep ==
    /\ pc = "pollSleep"
    /\ now + pollInterval <= MaxTime
    /\ now' = now + pollInterval
    /\ pc' = "loop"
    /\ UNCHANGED <<startTime, timeoutSeconds, ticks, maxHeight, searchQuery,
                   searchResponse, receiverChainRecv, ackResponse, scanned,
                   returned>>
    /\ UNCHANGED <<ledgerVars, runVars, auxVars>>

WaitStep ==
    \/ TickStart
    \/ TimeoutReached
    \/ GetHeight
    \/ TxSearchAnswered
    \/ AckQueryAnswered
    \/ FindTarget
    \/ PollSleep

InitWait ==
    /\ pc = "loop"
    /\ now = 0
    /\ startTime = 0
    /\ timeoutSeconds \in TimeoutChoices
    /\ ticks = 0
    /\ maxHeight = 0
    /\ searchQuery = NoRange
    /\ searchResponse = "none"
    /\ receiverChainRecv = NullRecv
    /\ ackResponse = "none"
    /\ scanned = NoRange
    /\ returned = <<>>
    /\ destHeight \in InitHeights
    /\ heightAtSample = 0
    /\ advances = 0
    /\ destTxs = {ForeignTx(destHeight)}
    /\ srcAck = FALSE
    /\ aheadCommitted = FALSE
    /\ InitTest
    /\ InitAux

NextWait ==
    \/ WaitStep
    \/ DestAdvance
    \/ Deliver
    \/ AckRelayed

SpecWait == InitWait /\ [][NextWait]_vars

\* Every query returns or fails, every sleep ends.
SpecWaitFair == SpecWait /\ WF_vars(WaitStep)

(***************************************************************************)
(* run() and runSingleTransferTest(), one step per awaited call.           *)
(***************************************************************************)
\* Where run() goes after the batch loop index reaches k.
AfterBatch(k) == IF k < batchSize THEN "batchSend" ELSE "stabilitySend"
AfterStability(k) == IF k < stabilityTestCount THEN "stabilitySend" ELSE "save"
\* The loop index once the batch loop has reached k.
BatchIndex(k) == IF k < batchSize THEN k ELSE 0

\* The stability loop sleeps between iterations, not after the last.
StabilityPause(k) == IF k < stabilityTestCount - 1 THEN stabilityTestInterval ELSE 0

\* Array.prototype.unshift in the place of push.
PushFront(log, ack) ==
    /\ relayerLogs' = <<log>> \o relayerLogs
    /\ mergedAcks' = <<ack>> \o mergedAcks

Push(log, ack) ==
    /\ relayerLogs' = Append(relayerLogs, log)
    /\ mergedAcks' = Append(mergedAcks, ack)

\* The tests run on an instance whose constructor has read the log file;
\* with no file to read it leaves the log empty.
StartRun ==
    /\ rpc = "idle"
    /\ loaded \/ logFileState = "missing"
    /\ rpc' = "init"
    /\ mode' = "run"
    /\ UNCHANGED <<i, transferResult, relayerLogs, mergedAcks, logFile,
                   probes, writeFailed>>
    /\ UNCHANGED <<now, trackerVars, ledgerVars, auxVars>>

StartSingle ==
    /\ rpc = "idle"
    /\ loaded \/ logFileState = "missing"
    /\ rpc' = "init"
    /\ mode' = "single"
    /\ UNCHANGED <<i, transferResult, relayerLogs, mergedAcks, logFile,
                   probes, writeFailed>>
    /\ UNCHANGED <<now, trackerVars, ledgerVars, auxVars>>

\* CosmosClient.connect: a Tendermint client and a Stargate client, each
\* with a connection of its own; n connections were opened before.
connect(cs, name, n) ==
    [cs EXCEPT ![name].tmClient = n + 1, ![name].stargateClient = n + 2]
\* CosmosClient.setupWallet: the signing client connects for itself.
setupWallet(cs, name, n) == [cs EXCEPT ![name].signingClient = n + 1]
\* CosmosClient.disconnect: the connections it closes.
disconnect(cs, name) ==
    {cs[name].tmClient, cs[name].stargateClient} \ {NoConnection}

\* initializeClients: both clients connect and set up their wallets; or
\* the connect of the second client fails once the first has connected;
\* or the setupWallet of the second fails once the first has its signing
\* client.  The result is the fields of the clients and the number of
\* connections opened so far.
InitOutcomes == {"ok", "connectFails", "walletFails"}
initializeClients(outcome, cs, n) ==
    LET a == connect(cs, "votaClient", n)
        ab == connect(a, "receiverChainClient", n + 2)
        abw == setupWallet(ab, "votaClient", n + 4)
        all == setupWallet(abw, "receiverChainClient", n + 5)
    IN  IF outcome = "connectFails" THEN [clients |-> a, opened |-> n + 2]
        ELSE IF outcome = "walletFails" THEN [clients |-> abw, opened |-> n + 5]
        ELSE [clients |-> all, opened |-> n + 6]

\* initializeClients: it succeeds or throws; run() turns the exception
\* into a failed result, runSingleTransferTest cleans up and rethrows.
InitializeClients ==
    /\ rpc = "init"
    /\ \E outcome \in InitOutcomes :
          LET r == initializeClients(outcome, clients, opened)
          IN  /\ clients' = r.clients
              /\ opened' = r.opened
              /\ open' = open \cup ((opened + 1)..r.opened)
              /\ rpc' = IF outcome = "ok"
                        THEN (IF mode = "run" THEN "basicChannel"
                              ELSE "singleSend")
                        ELSE (IF mode = "run" THEN "cleanup"
                              ELSE "cleanupThrow")
    /\ UNCHANGED <<mode, i, transferResult, relayerLogs, mergedAcks, logFile,
                   probes, writeFailed>>
    /\ UNCHANGED <<now, trackerVars, ledgerVars, sendVars, transmissionVars,
                   continuousVars, metricsVars, storeVars, detectVars,
                   reportVars, channelVars, stabilityVars, scriptVars>>

\* checkChannelStatus: the REST query of the channel answers with the
\* state, answers with an error status or fails; then getHeight of the
\* source ledger and getBlock of its latest block return or throw.
ChannelStates == {"STATE_OPEN", "STATE_CLOSED", Undefined}
NotAsked == "notAsked"
ChannelQueries ==
    {[done |-> TRUE, rest |-> "ok", state |-> st, height |-> NotAsked,
      block |-> NotAsked] : st \in ChannelStates}
    \cup {[done |-> TRUE, rest |-> r, state |-> NotAsked, height |-> "throws",
           block |-> NotAsked] : r \in {"notOk", "throws"}}
    \cup {[done |-> TRUE, rest |-> r, state |-> NotAsked, height |-> "ok",
           block |-> b] : r \in {"notOk", "throws"}, b \in {"ok", "throws"}}
checkChannelStatus(q) ==
    IF q.rest = "ok" THEN q.state = "STATE_OPEN"
    ELSE IF q.height = "throws" THEN FALSE
    ELSE TRUE

\* runBasicRelayTest, step 1: checkChannelStatus.
CheckChannelStatus ==
    /\ rpc = "basicChannel"
    /\ \E q \in ChannelQueries :
          /\ channelQuery' = q
          /\ rpc' = IF checkChannelStatus(q) THEN "basicSend" ELSE "cleanup"
    /\ UNCHANGED <<mode, i, transferResult, relayerLogs, mergedAcks, logFile,
                   probes, writeFailed>>
    /\ UNCHANGED <<now, trackerVars, ledgerVars, sendVars, transmissionVars,
                   continuousVars, metricsVars, storeVars, detectVars,
                   reportVars, stabilityVars, connVars, scriptVars>>

\* runBasicRelayTest, step 2: a failed transfer ends the test.
BasicSend ==
    /\ rpc = "basicSend"
    /\ \E tr \in sendIBCTransfer(now) :
          /\ transferResult' = tr
          /\ rpc' = IF tr.success THEN "basicWait" ELSE "cleanup"
    /\ probes' = probes + 1
    /\ UNCHANGED <<mode, i, relayerLogs, mergedAcks, logFile, writeFailed>>
    /\ UNCHANGED <<now, trackerVars, ledgerVars, auxVars>>

\* runBasicRelayTest, steps 3 and 4: a timeout is logged and ends run();
\* an acknowledged probe is logged and the batch test follows.
BasicWait ==
    /\ rpc = "basicWait"
    /\ \E w \in WaitOutcomes(transferResult.sequence, now, timeout) :
          /\ now' = w.at
          /\ IF w.ack.acknowledged
             THEN /\ Push(BasicSuccessLog(transferResult, w.ack, now'), w.ack)
                  /\ rpc' = AfterBatch(0)
                  /\ channelQuery' = NoQuery
             ELSE /\ Push(BasicTimeoutLog(transferResult, now', timeout),
                          w.ack)
                  /\ rpc' = "cleanup"
                  /\ UNCHANGED channelQuery
    /\ i' = 0
    /\ UNCHANGED <<mode, transferResult, logFile, probes, writeFailed>>
    /\ UNCHANGED <<trackerVars, ledgerVars, sendVars, transmissionVars,
                   continuousVars, metricsVars, storeVars, detectVars,
                   reportVars, stabilityVars, connVars, scriptVars>>

\* runBatchTest: a failed transfer goes to the local results only.
BatchSend ==
    /\ rpc = "batchSend"
    /\ \E tr \in sendIBCTransfer(now) :
          /\ transferResult' = tr
          /\ IF tr.success
             THEN rpc' = "batchWait" /\ i' = i
             ELSE rpc' = AfterBatch(i + 1) /\ i' = BatchIndex(i + 1)
    /\ probes' = probes + 1
    /\ UNCHANGED <<mode, relayerLogs, mergedAcks, logFile, writeFailed>>
    /\ UNCHANGED <<now, trackerVars, ledgerVars, auxVars>>

\* runBatchTest: the observation is logged, then the pause.
BatchWait ==
    /\ rpc = "batchWait"
    /\ \E w \in WaitOutcomes(transferResult.sequence, now, timeout) :
          /\ Push(MergeLog(transferResult, w.ack, w.at, timeout), w.ack)
          /\ now' = w.at + batchSleep
    /\ rpc' = AfterBatch(i + 1)
    /\ i' = BatchIndex(i + 1)
    /\ UNCHANGED <<mode, transferResult, logFile, probes, writeFailed>>
    /\ UNCHANGED <<trackerVars, ledgerVars, auxVars>>

\* runStabilityTest: a failed transfer goes to the local results only.
\* The locals of runStabilityTest after an iteration whose submission was
\* rejected, and after one whose acknowledgement was awaited.
StabilityLocals ==
    [consecutiveFailures |-> consecutiveFailures,
     maxConsecutiveFailures |-> maxConsecutiveFailures,
     results |-> results]
AfterRejected(st) ==
    [st EXCEPT !.consecutiveFailures = @ + 1,
               !.results = Append(@, FALSE)]
AfterAwaited(st, success) ==
    LET failures == IF success THEN 0 ELSE st.consecutiveFailures + 1
    IN  [consecutiveFailures |-> failures,
         maxConsecutiveFailures |-> Max(st.maxConsecutiveFailures, failures),
         results |-> Append(st.results, success)]

\* The result the function returns after the loop.  The rate is
\* (successCount / testCount) * 100; for the counts of the model it
\* compares with 90 as the exact quotient does.
passRate == 90
maxAllowedFailures == 3
StabilityResult(st) ==
    LET successes == Len(SelectSeq(st.results, LAMBDA r : r))
    IN  [done |-> TRUE,
         success |-> /\ 100 * successes >= passRate * stabilityTestCount
                     /\ st.maxConsecutiveFailures <= maxAllowedFailures,
         totalTests |-> stabilityTestCount,
         successfulTests |-> successes,
         maxConsecutiveFailures |-> st.maxConsecutiveFailures]

\* One iteration has ended with the locals st: they are kept, and after
\* the last iteration the result is returned.
StabilityIterationEnds(st, k) ==
    /\ consecutiveFailures' = st.consecutiveFailures
    /\ maxConsecutiveFailures' = st.maxConsecutiveFailures
    /\ results' = st.results
    /\ stabilityResult' = IF k < stabilityTestCount THEN stabilityResult
                          ELSE StabilityResult(st)

StabilitySend ==
    /\ rpc = "stabilitySend"
    /\ \E tr \in sendIBCTransfer(now) :
          /\ transferResult' = tr
          /\ IF tr.success
             THEN /\ rpc' = "stabilityWait" /\ i' = i /\ now' = now
                  /\ UNCHANGED stabilityVars
             ELSE /\ rpc' = AfterStability(i + 1)
                  /\ i' = i + 1
                  /\ now' = now + StabilityPause(i)
                  /\ StabilityIterationEnds(AfterRejected(StabilityLocals),
                                            i + 1)
    /\ probes' = probes + 1
    /\ UNCHANGED <<mode, relayerLogs, mergedAcks, logFile, writeFailed>>
    /\ UNCHANGED <<trackerVars, ledgerVars, sendVars, transmissionVars,
                   continuousVars, metricsVars, storeVars, detectVars,
                   reportVars, channelVars, connVars, scriptVars>>

StabilityWait ==
    /\ rpc = "stabilityWait"
    /\ \E w \in WaitOutcomes(transferResult.sequence, now, timeout) :
          /\ Push(MergeLog(transferResult, w.ack, w.at, timeout), w.ack)
          /\ now' = w.at + StabilityPause(i)
          /\ StabilityIterationEnds(
                AfterAwaited(StabilityLocals, w.ack.acknowledged), i + 1)
    /\ rpc' = AfterStability(i + 1)
    /\ i' = i + 1
    /\ UNCHANGED <<mode, transferResult, logFile, probes, writeFailed>>
    /\ UNCHANGED <<trackerVars, ledgerVars, sendVars, transmissionVars,
                   continuousVars, metricsVars, storeVars, detectVars,
                   reportVars, channelVars, connVars, scriptVars>>

\* runSingleTransferTest: a failed transfer is logged and saved.
SingleSend ==
    /\ rpc = "singleSend"
    /\ \E tr \in sendIBCTransfer(now) :
          /\ transferResult' = tr
          /\ IF tr.success
             THEN /\ rpc' = "singleWait"
                  /\ UNCHANGED <<relayerLogs, mergedAcks>>
             ELSE /\ rpc' = "save"
                  /\ Push(FailedLog(tr, now), NoAck)
    /\ probes' = probes + 1
    /\ UNCHANGED <<mode, i, logFile, writeFailed>>
    /\ UNCHANGED <<now, trackerVars, ledgerVars, auxVars>>

SingleWait ==
    /\ rpc = "singleWait"
    /\ \E w \in WaitOutcomes(transferResult.sequence, now, timeout) :
          /\ Push(MergeLog(transferResult, w.ack, w.at, timeout), w.ack)
          /\ now' = w.at
    /\ rpc' = "save"
    /\ UNCHANGED <<mode, i, transferResult, logFile, probes, writeFailed>>
    /\ UNCHANGED <<trackerVars, ledgerVars, auxVars>>

\* saveTestResults: both files are written, or a write fails and the
\* failure is logged.  An exception leaving the call would reach the
\* catch block of the caller.
SaveTestResults ==
    /\ rpc = "save"
    /\ \E w \in WriteOutcomes :
          LET r == saveTestResults(w, relayerLogs, logFile, logFileState,
                                   metricsFile)
          IN  /\ relayerLogs' = r.logs
              /\ logFile' = r.logFile
              /\ logFileState' = r.logFileState
              /\ metricsFile' = r.metricsFile
              /\ writeFailed' = (writeFailed \/ w # "ok")
              /\ saveOutcome' = w
              /\ rpc' = IF ~r.raised THEN "cleanup"
                        ELSE IF mode = "run" THEN "cleanup"
                        ELSE "cleanupThrow"
    /\ UNCHANGED <<mode, i, transferResult, mergedAcks, probes, reloaded>>
    /\ UNCHANGED <<now, trackerVars, ledgerVars, sendVars, transmissionVars,
                   continuousVars, metricsVars, detectVars,
                   extraVars>>

\* cleanup: the disconnect of both clients, after which the call returns
\* or, for a failed initialisation of runSingleTransferTest, rethrows.
cleanup(cs) == UNION {disconnect(cs, name) : name \in ClientNames}
Cleanup ==
    /\ rpc \in {"cleanup", "cleanupThrow"}
    /\ rpc' = IF rpc = "cleanup" THEN "returned" ELSE "thrown"
    /\ open' = open \ cleanup(clients)
    /\ UNCHANGED <<clients, opened>>
    /\ UNCHANGED <<mode, i, transferResult, relayerLogs, mergedAcks, logFile,
                   probes, writeFailed>>
    /\ UNCHANGED <<now, trackerVars, ledgerVars, sendVars, transmissionVars,
                   continuousVars, metricsVars, storeVars, detectVars,
                   reportVars, channelVars, stabilityVars, scriptVars>>

\* The commands run with one configured timeout; the timeouts of
\* TimeoutChoices are told apart where waitForAcknowledgement is stepped
\* through, under SpecWait.
InitRun ==
    /\ pc = "idle"
    /\ now = 0
    /\ startTime = 0
    /\ timeoutSeconds = MaxTimeoutSeconds
    /\ ticks = 0
    /\ maxHeight = 0
    /\ searchQuery = NoRange
    /\ searchResponse = "none"
    /\ receiverChainRecv = NullRecv
    /\ ackResponse = "none"
    /\ scanned = NoRange
    /\ returned = <<>>
    /\ destHeight = LowHeight
    /\ heightAtSample = 0
    /\ advances = 0
    /\ destTxs = {}
    /\ srcAck = FALSE
    /\ aheadCommitted = FALSE
    /\ InitTest
    /\ InitAux

NextRun ==
    \/ StartRun
    \/ StartSingle
    \/ InitializeClients
    \/ CheckChannelStatus
    \/ BasicSend
    \/ BasicWait
    \/ BatchSend
    \/ BatchWait
    \/ StabilitySend
    \/ StabilityWait
    \/ SingleSend
    \/ SingleWait
    \/ SaveTestResults
    \/ Cleanup

SpecRun == InitRun /\ [][NextRun]_vars

(***************************************************************************)
(* One call of sendIBCTransfer against every broadcast.                    *)
(***************************************************************************)
SendIBCTransfer ==
    /\ sendResult = NotCalled
    /\ \E b \in Broadcasts :
          /\ broadcast' = b
          /\ sendResult' = sendIBCTransferCall(b, now)
          /\ extracted' = ExtractedIn(b)
    /\ UNCHANGED <<waitVars, ledgerVars, runVars, transmissionVars,
                   continuousVars, metricsVars, storeVars, detectVars,
                   extraVars>>

NextSend == SendIBCTransfer

SpecSend == InitRun /\ [][NextSend]_vars

(***************************************************************************)
(* PacketTransmissionTest.testBatchTransfer: the transfers are started one *)
(* after the other, 100 ms apart, and awaited together.                    *)
(***************************************************************************)
maxConcurrentTxs == 4
maxBatchTransfers == 5
transferBatchSize == Min({maxConcurrentTxs, maxBatchTransfers})

\* successRate >= 0.8
PassRate(passed, size) == passed * 10 >= 8 * size

TestBatchTransfer ==
    /\ tpc = "idle"
    /\ tpc' = "loop"
    /\ UNCHANGED <<launched, pending, transferResults, batchPassed>>
    /\ UNCHANGED <<waitVars, ledgerVars, runVars, sendVars, continuousVars,
                   metricsVars, storeVars, detectVars,
                   extraVars>>

\* promises.push(this.executeSingleTransfer(i)): the call runs up to its
\* await of signAndBroadcast, then the loop sleeps.
ExecuteSingleTransfer ==
    /\ tpc = "loop"
    /\ launched < transferBatchSize
    /\ pending' = pending \cup {launched}
    /\ launched' = launched + 1
    /\ tpc' = "sleep"
    /\ UNCHANGED <<transferResults, batchPassed>>
    /\ UNCHANGED <<waitVars, ledgerVars, runVars, sendVars, continuousVars,
                   metricsVars, storeVars, detectVars,
                   extraVars>>

\* The sleep of 100 ms ends: the next transfer, or Promise.all.
TransferSleepEnds ==
    /\ tpc = "sleep"
    /\ tpc' = IF launched < transferBatchSize THEN "loop" ELSE "join"
    /\ UNCHANGED <<launched, pending, transferResults, batchPassed>>
    /\ UNCHANGED <<waitVars, ledgerVars, runVars, sendVars, continuousVars,
                   metricsVars, storeVars, detectVars,
                   extraVars>>

\* A signAndBroadcast in flight settles: code 0, another code, or an
\* exception, which executeSingleTransfer catches.
BroadcastSettles ==
    /\ \E k \in pending, outcome \in {"code 0", "rejected", "throws"} :
          /\ pending' = pending \ {k}
          /\ transferResults' =
                transferResults \cup {<<k, outcome = "code 0">>}
    /\ UNCHANGED <<tpc, launched, batchPassed>>
    /\ UNCHANGED <<waitVars, ledgerVars, runVars, sendVars, continuousVars,
                   metricsVars, storeVars, detectVars,
                   extraVars>>

\* Promise.all resolves once every call has settled.
AwaitAll ==
    /\ tpc = "join"
    /\ pending = {}
    /\ tpc' = "done"
    /\ batchPassed' =
          PassRate(Cardinality({r \in transferResults : r[2]}),
                   transferBatchSize)
    /\ UNCHANGED <<launched, pending, transferResults>>
    /\ UNCHANGED <<waitVars, ledgerVars, runVars, sendVars, continuousVars,
                   metricsVars, storeVars, detectVars,
                   extraVars>>

NextBatchTransfer ==
    \/ TestBatchTransfer
    \/ ExecuteSingleTransfer
    \/ TransferSleepEnds
    \/ BroadcastSettles
    \/ AwaitAll

SpecBatchTransfer == InitRun /\ [][NextBatchTransfer]_vars

(***************************************************************************)
(* The continuous-transfer command: runSingleTransferTest in a loop, with  *)
(* the SIGINT handler.  One action runs from the return of one awaited     *)
(* call to the next await; the handler runs between them.                  *)
(***************************************************************************)
MaxTests == 2
intervalSeconds == 5
minInterval == 5
shutdownPoll == 100

MaxCounts == {0, MaxTests - 1, MaxTests}

\* The condition of the while loop, also the condition of the wait.
ContinueLoopIgnoresShutdown(shutting, cnt, mc) == mc = 0 \/ cnt < mc
ContinueLoopIgnoresCount(shutting, cnt, mc) == ~shutting
ContinueLoop(shutting, cnt, mc) == ~shutting /\ (mc = 0 \/ cnt < mc)

\* The handler's test for the forced exit.
ForceExitNever(shutting) == FALSE
ForceExit(shutting) == shutting

\* The break of --stop-on-error after a test that failed or crashed.
BreakNever(ok, soe) == FALSE
Break(ok, soe) == ~ok /\ soe

\* The argument of the process.exit after the summary.
SummaryExitsZero(err) == 0
SummaryExit(err) == IF err = 0 THEN 0 ELSE 1

\* Math.max(0, interval * 1000 - testDuration)
waitTime(start, t) == Max(0, intervalSeconds * 1000 - (t - start))

\* The body of the loop up to the first await of runSingleTransferTest.
StartTest(cnt, succ, err, t) ==
    /\ cnt < MaxTests
    /\ count' = cnt + 1
    /\ successCount' = succ
    /\ errorCount' = err
    /\ testStartTime' = t
    /\ logsAtStart' = Len(relayerLogs)
    /\ cpc' = "test"
    /\ rpc' = "init"
    /\ mode' = "single"
    /\ UNCHANGED <<exitCode, exitVia, waitUntil>>

\* The summary after the loop and process.exit.
Summary(cnt, succ, err) ==
    /\ count' = cnt
    /\ successCount' = succ
    /\ errorCount' = err
    /\ cpc' = "exited"
    /\ exitCode' = SummaryExit(err)
    /\ exitVia' = "summary"
    /\ UNCHANGED <<rpc, mode, testStartTime, logsAtStart, waitUntil>>

\* The top of the while loop.
LoopTop(cnt, succ, err, t) ==
    IF ContinueLoop(isShuttingDown, cnt, maxCount)
    THEN StartTest(cnt, succ, err, t)
    ELSE Summary(cnt, succ, err)

\* The command starts: an interval below the minimum ends it at once,
\* else the handler is installed and the first test starts.
ContinuousTransfer ==
    /\ cpc = "idle"
    /\ rpc = "idle"
    /\ \E mc \in MaxCounts, soe \in BOOLEAN,
          interval \in {minInterval - 1, intervalSeconds} :
          /\ maxCount' = mc
          /\ stopOnError' = soe
          /\ IF interval < minInterval
             THEN /\ cpc' = "exited"
                  /\ exitCode' = 1
                  /\ exitVia' = "usage"
                  /\ UNCHANGED <<count, successCount, errorCount,
                                 testStartTime, logsAtStart, waitUntil,
                                 rpc, mode>>
             ELSE IF ContinueLoop(isShuttingDown, 0, mc)
                  THEN StartTest(0, 0, 0, now)
                  ELSE Summary(0, 0, 0)
    /\ UNCHANGED <<isShuttingDown, interrupts, countAtInterrupt,
                   phaseAtInterrupt, interruptAt>>
    /\ UNCHANGED <<i, transferResult, relayerLogs, mergedAcks, logFile,
                   probes, writeFailed>>
    /\ UNCHANGED <<now, trackerVars, ledgerVars, sendVars, transmissionVars,
                   metricsVars, storeVars, detectVars,
                   extraVars>>

\* runSingleTransferTest has returned its observation or thrown: the
\* counters, the break of --stop-on-error, the wait or the next test.
AfterTest ==
    /\ cpc = "test"
    /\ rpc \in {"returned", "thrown"}
    /\ LET ok == rpc = "returned" /\ relayerLogs[Len(relayerLogs)].success
           succ == IF ok THEN successCount + 1 ELSE successCount
           err == IF ok THEN errorCount ELSE errorCount + 1
       IN  IF Break(ok, stopOnError)
           THEN Summary(count, succ, err)
           ELSE IF /\ ContinueLoop(isShuttingDown, count, maxCount)
                   /\ waitTime(testStartTime, now) > 0
                THEN /\ cpc' = "waiting"
                     /\ waitUntil' = now + waitTime(testStartTime, now)
                     /\ successCount' = succ
                     /\ errorCount' = err
                     /\ UNCHANGED <<count, testStartTime, logsAtStart,
                                    exitCode, exitVia, rpc, mode>>
                ELSE LoopTop(count, succ, err, now)
    /\ UNCHANGED <<maxCount, stopOnError, isShuttingDown, interrupts,
                   countAtInterrupt, phaseAtInterrupt, interruptAt>>
    /\ UNCHANGED <<i, transferResult, relayerLogs, mergedAcks, logFile,
                   probes, writeFailed>>
    /\ UNCHANGED <<now, trackerVars, ledgerVars, sendVars, transmissionVars,
                   metricsVars, storeVars, detectVars,
                   extraVars>>

\* The timer of the wait fires.
WaitTimerFires ==
    /\ cpc = "waiting"
    /\ ~isShuttingDown
    /\ now' = waitUntil
    /\ LoopTop(count, successCount, errorCount, waitUntil)
    /\ UNCHANGED <<maxCount, stopOnError, isShuttingDown, interrupts,
                   countAtInterrupt, phaseAtInterrupt, interruptAt>>
    /\ UNCHANGED <<i, transferResult, relayerLogs, mergedAcks, logFile,
                   probes, writeFailed>>
    /\ UNCHANGED <<trackerVars, ledgerVars, sendVars, transmissionVars,
                   metricsVars, storeVars, detectVars,
                   extraVars>>

\* The poll of the wait, every 100 ms, sees the stop request: the timer
\* is cleared and the wait ends.
CheckShutdown ==
    /\ cpc = "waiting"
    /\ isShuttingDown
    /\ now' = now + shutdownPoll
    /\ LoopTop(count, successCount, errorCount, now + shutdownPoll)
    /\ UNCHANGED <<maxCount, stopOnError, isShuttingDown, interrupts,
                   countAtInterrupt, phaseAtInterrupt, interruptAt>>
    /\ UNCHANGED <<i, transferResult, relayerLogs, mergedAcks, logFile,
                   probes, writeFailed>>
    /\ UNCHANGED <<trackerVars, ledgerVars, sendVars, transmissionVars,
                   metricsVars, storeVars, detectVars,
                   extraVars>>

\* SIGINT is delivered while a test or the wait is in flight: the second
\* one exits, the first asks for the stop.  During the wait it arrives
\* at its start or one poll before the timer is due.
Interrupt ==
    /\ cpc \in {"test", "waiting"}
    /\ interrupts' = interrupts + 1
    /\ \E t \in IF cpc = "waiting"
                THEN {now, Max(now, waitUntil - shutdownPoll)}
                ELSE {now} :
          now' = t
    /\ IF ForceExit(isShuttingDown)
       THEN /\ cpc' = "exited"
            /\ exitCode' = 1
            /\ exitVia' = "force"
            /\ rpc' = "killed"
            /\ UNCHANGED <<isShuttingDown, countAtInterrupt,
                           phaseAtInterrupt, interruptAt>>
       ELSE /\ isShuttingDown' = TRUE
            /\ countAtInterrupt' = count
            /\ phaseAtInterrupt' = cpc
            /\ interruptAt' = now'
            /\ UNCHANGED <<cpc, exitCode, exitVia, rpc>>
    /\ UNCHANGED <<maxCount, stopOnError, count, successCount, errorCount,
                   testStartTime, waitUntil, logsAtStart>>
    /\ UNCHANGED <<mode, i, transferResult, relayerLogs, mergedAcks, logFile,
                   probes, writeFailed>>
    /\ UNCHANGED <<trackerVars, ledgerVars, sendVars, transmissionVars,
                   metricsVars, storeVars, detectVars,
                   extraVars>>

NextContinuous ==
    \/ ContinuousTransfer
    \/ InitializeClients
    \/ SingleSend
    \/ SingleWait
    \/ SaveTestResults
    \/ Cleanup
    \/ AfterTest
    \/ WaitTimerFires
    \/ CheckShutdown
    \/ Interrupt

SpecContinuous == InitRun /\ [][NextContinuous]_vars

(***************************************************************************)
(* The constructor, the tests and getPerformanceMetrics on a stored log.   *)
(***************************************************************************)
\* An earlier run has left its two files, or a log file that cannot be
\* loaded.
EarlierRun ==
    /\ ~loaded
    /\ rpc = "idle"
    /\ logFileState = "missing"
    /\ \E f \in Files :
          /\ logFileState' = f.state
          /\ logFile' = f.content
          /\ metricsFile' =
                IF f.state = "json"
                THEN SavedMetrics(
                        generatePerformanceMetrics(Parse(f.content)).metrics)
                ELSE <<>>
    /\ UNCHANGED <<saveOutcome, reloaded>>
    /\ UNCHANGED metricsVars
    /\ UNCHANGED <<rpc, mode, i, transferResult, relayerLogs, mergedAcks,
                   probes, writeFailed>>
    /\ UNCHANGED <<now, trackerVars, ledgerVars, sendVars, transmissionVars,
                   continuousVars, detectVars,
                   extraVars>>

\* The constructor: loadExistingLogs reads the log file; an exception
\* leaving it would leave the constructor.
LoadExistingLogs ==
    /\ ~loaded
    /\ rpc = "idle"
    /\ loaded' = TRUE
    /\ LET r == loadExistingLogs(logFileState, logFile)
       IN  /\ relayerLogs' = r.logs
           /\ rpc' = IF r.raised THEN "thrown" ELSE rpc
    /\ UNCHANGED <<mcalls, metrics, lastLog, prevMetrics, prevLog>>
    /\ UNCHANGED <<mode, i, transferResult, mergedAcks, logFile, probes,
                   writeFailed>>
    /\ UNCHANGED <<now, trackerVars, ledgerVars, sendVars, transmissionVars,
                   continuousVars, storeVars, detectVars,
                   extraVars>>

\* A test appends its observation to the log the last call has seen.
PushObservation ==
    /\ loaded
    /\ mcalls = 1
    /\ relayerLogs = lastLog
    /\ \E o \in Observations : relayerLogs' = Append(relayerLogs, o)
    /\ UNCHANGED metricsVars
    /\ UNCHANGED <<rpc, mode, i, transferResult, mergedAcks, logFile, probes,
                   writeFailed>>
    /\ UNCHANGED <<now, trackerVars, ledgerVars, sendVars, transmissionVars,
                   continuousVars, storeVars, detectVars,
                   extraVars>>

\* getPerformanceMetrics: one call of generatePerformanceMetrics.
GetPerformanceMetrics ==
    /\ loaded
    /\ mcalls < 2
    /\ mcalls' = mcalls + 1
    /\ LET r == generatePerformanceMetrics(relayerLogs)
       IN  /\ metrics' = r.metrics
           /\ relayerLogs' = r.heap[LogArray]
    /\ lastLog' = relayerLogs
    /\ prevMetrics' = metrics
    /\ prevLog' = lastLog
    /\ UNCHANGED loaded
    /\ UNCHANGED <<rpc, mode, i, transferResult, mergedAcks, logFile, probes,
                   writeFailed>>
    /\ UNCHANGED <<now, trackerVars, ledgerVars, sendVars, transmissionVars,
                   continuousVars, storeVars, detectVars,
                   extraVars>>

\* The constructor of a later instance, once the test has returned.
LoadInNewInstance ==
    /\ rpc = "returned"
    /\ ~reloaded.done
    /\ reloaded' = [done |-> TRUE,
                    logs |-> loadExistingLogs(logFileState, logFile).logs]
    /\ UNCHANGED <<logFileState, metricsFile, saveOutcome>>
    /\ UNCHANGED <<now, trackerVars, ledgerVars, runVars, sendVars,
                   transmissionVars, continuousVars, metricsVars, detectVars,
                   extraVars>>

NextMetrics ==
    \/ EarlierRun
    \/ LoadExistingLogs
    \/ PushObservation
    \/ GetPerformanceMetrics

SpecMetrics == InitRun /\ [][NextMetrics]_vars

\* getRelayerLogs: a new array of the same observations.
getRelayerLogs(logs) == [k \in 1..Len(logs) |-> logs[k]]

\* Array.prototype.slice(-n) and Array.prototype.reverse on its result.
recentCount == 10
Slice(array, n) ==
    IF Len(array) <= n THEN array
    ELSE SubSeq(array, Len(array) - n + 1, Len(array))
Reverse(array) == [k \in 1..Len(array) |-> array[Len(array) + 1 - k]]

\* generateJSONSummary on the arrays the ReportGenerator was built with.
generateJSONSummary(logs, groups) ==
    [done |-> TRUE,
     totalTests |-> Len(logs),
     successfulTests |-> Len(Successful(logs)),
     activeValidators |-> Len(groups),
     recentLogs |-> Reverse(Slice(logs, recentCount))]

\* The report the runner makes of a finished test: getRelayerLogs and
\* getPerformanceMetrics of the instance, then generateJSONSummary.
GenerateReport ==
    /\ rpc = "returned"
    /\ ~summary.done
    /\ LET copy == getRelayerLogs(relayerLogs)
           r == generatePerformanceMetrics(relayerLogs)
       IN  /\ relayerLogs' = r.heap[LogArray]
           /\ summary' = generateJSONSummary(copy, r.metrics)
    /\ UNCHANGED <<rpc, mode, i, transferResult, mergedAcks, logFile, probes,
                   writeFailed>>
    /\ UNCHANGED <<now, trackerVars, ledgerVars, sendVars, transmissionVars,
                   continuousVars, metricsVars, storeVars, detectVars,
                   channelVars, stabilityVars, connVars, scriptVars>>

\* One runSingleTransferTest on the files of an earlier run, then a later
\* instance.
NextStore ==
    \/ EarlierRun
    \/ LoadExistingLogs
    \/ StartSingle
    \/ InitializeClients
    \/ SingleSend
    \/ SingleWait
    \/ SaveTestResults
    \/ Cleanup
    \/ LoadInNewInstance
    \/ GenerateReport

SpecStore == InitRun /\ [][NextStore]_vars

(***************************************************************************)
(* run_continuous_test.sh: invocations of the script in one directory with *)
(* one log directory, each a process of its own that runs its commands one *)
(* after the other, interleaved with the commands of the others.           *)
(***************************************************************************)
MaxInvocations == 3
Commands == {"start", "stop", "status"}
testVars == <<waitVars, ledgerVars, runVars, sendVars, transmissionVars,
              continuousVars, metricsVars, storeVars, detectVars, reportVars,
              channelVars, stabilityVars, connVars>>

\* An invocation: its command, the command it is at, the PID it read
\* from the PID file and the PID of the process it launched.
Invocation(cmd) ==
    [cmd |-> cmd, at |-> "check", stored |-> NoPid, pid |-> NoPid]
At(k, place) == k \in 1..Len(invocations) /\ invocations[k].at = place
Goes(k, place) ==
    invocations' = [invocations EXCEPT ![k].at = place]

\* Where an invocation goes once check_running has returned.
AfterCheck(cmd, running) ==
    IF cmd = "start" THEN (IF running THEN "refused" ELSE "launch")
    ELSE IF cmd = "stop" THEN (IF running THEN "read" ELSE "done")
    ELSE "done"

\* The script is invoked.
Invoke ==
    /\ Len(invocations) < MaxInvocations
    /\ \E cmd \in Commands :
          invocations' = Append(invocations, Invocation(cmd))
    /\ UNCHANGED <<pidFile, alive, spawned, testVars>>

\* check_running: [ -f "$pid_file" ] and stored_pid=$(cat "$pid_file").
CheckPidFile(k) ==
    /\ At(k, "check")
    /\ invocations' =
          [invocations EXCEPT
             ![k].stored = pidFile,
             ![k].at = IF pidFile = NoPid
                       THEN AfterCheck(invocations[k].cmd, FALSE)
                       ELSE "ps"]
    /\ UNCHANGED <<pidFile, alive, spawned, testVars>>

\* check_running: ps -p "$stored_pid"; the command line and the working
\* directory of a background test of this directory match.
CheckProcess(k) ==
    /\ At(k, "ps")
    /\ Goes(k, IF invocations[k].stored \in alive
               THEN AfterCheck(invocations[k].cmd, TRUE)
               ELSE "rm")
    /\ UNCHANGED <<pidFile, alive, spawned, testVars>>

\* check_running: rm -f "$pid_file" for a process that is gone.
RemoveStale(k) ==
    /\ At(k, "rm")
    /\ pidFile' = NoPid
    /\ Goes(k, AfterCheck(invocations[k].cmd, FALSE))
    /\ UNCHANGED <<alive, spawned, testVars>>

\* start_continuous_test: nohup bash -c "..." & and pid=$!
Launch(k) ==
    /\ At(k, "launch")
    /\ spawned' = spawned + 1
    /\ alive' = alive \cup {spawned + 1}
    /\ invocations' = [invocations EXCEPT ![k].pid = spawned + 1,
                                          ![k].at = "write"]
    /\ UNCHANGED <<pidFile, testVars>>

\* start_continuous_test: echo "$pid" > "$pid_file"
WritePid(k) ==
    /\ At(k, "write")
    /\ pidFile' = invocations[k].pid
    /\ Goes(k, "done")
    /\ UNCHANGED <<alive, spawned, testVars>>

\* stop_process: stored_pid=$(cat "$pid_file"), again.
ReadPid(k) ==
    /\ At(k, "read")
    /\ invocations' = [invocations EXCEPT ![k].stored = pidFile,
                                          ![k].at = "kill"]
    /\ UNCHANGED <<pidFile, alive, spawned, testVars>>

\* stop_process: kill, the wait, kill -9.
Kill(k) ==
    /\ At(k, "kill")
    /\ alive' = alive \ {invocations[k].stored}
    /\ Goes(k, "unlink")
    /\ UNCHANGED <<pidFile, spawned, testVars>>

\* stop_process: rm -f "$pid_file"
RemovePid(k) ==
    /\ At(k, "unlink")
    /\ pidFile' = NoPid
    /\ Goes(k, "done")
    /\ UNCHANGED <<alive, spawned, testVars>>

\* A background test ends by itself.
TestEnds ==
    /\ \E p \in alive : alive' = alive \ {p}
    /\ UNCHANGED <<pidFile, invocations, spawned, testVars>>

NextScript ==
    \/ Invoke
    \/ \E k \in 1..MaxInvocations : CheckPidFile(k)
    \/ \E k \in 1..MaxInvocations : CheckProcess(k)
    \/ \E k \in 1..MaxInvocations : RemoveStale(k)
    \/ \E k \in 1..MaxInvocations : Launch(k)
    \/ \E k \in 1..MaxInvocations : WritePid(k)
    \/ \E k \in 1..MaxInvocations : ReadPid(k)
    \/ \E k \in 1..MaxInvocations : Kill(k)
    \/ \E k \in 1..MaxInvocations : RemovePid(k)
    \/ TestEnds

SpecScript == InitRun /\ [][NextScript]_vars

(***************************************************************************)
(* The two detection paths on one delivery transaction: the tx_search of   *)
(* searchreceiverChainRecvPacket and the block scan of the query helper.   *)
(* queryAcknowledgementDirect, with extractRelayerFromTx and               *)
(* extractMemoFromTx, runs only without a query helper, and                *)
(* initializeClients always creates one.                                   *)
(***************************************************************************)
\* The memos sendIBCTransfer gives its probes: the default marker, and the
\* memos of runBatchTest and runStabilityTest.
ProbePrefixes == {ProbePrefix, "batch-test-", "stability-test-"}
IsProbeMemo(memo) == memo # <<>> /\ Head(memo) \in ProbePrefixes

DeliveryMemos ==
    Memos \cup {<<"batch-test-", "0">>, <<"stability-test-", "0">>,
                <<" ", ProbePrefix, "1700000000000">>}
DeliveryTxs ==
    {[hash |-> "TX1", height |-> LowHeight, sequence |-> TestSequence,
      channel |-> channelId, sender |-> sender, signer |-> signer,
      recvFirst |-> recvFirst, memo |-> memo] :
        sender \in Senders \cup {NoSender}, signer \in {"", "relayer2"},
        recvFirst \in BOOLEAN, memo \in DeliveryMemos}

\* A relayer has delivered the packet of the probe.
RelayerDelivers ==
    /\ deliveryTx = NoTx
    /\ deliveryTx' \in DeliveryTxs
    /\ UNCHANGED detected
    /\ UNCHANGED <<waitVars, ledgerVars, runVars, sendVars, transmissionVars,
                   continuousVars, metricsVars, storeVars, extraVars>>

\* searchreceiverChainRecvPacket finds the delivery; waitForAcknowledgement
\* makes the record.
SearchDetects ==
    /\ deliveryTx # NoTx
    /\ detected = NotDetected
    /\ \E decoded \in BOOLEAN :
          detected' = AckFromRecv(SearchResult(deliveryTx, LowHeight, decoded),
                                  TestSequence, searchSleep)
    /\ UNCHANGED deliveryTx
    /\ UNCHANGED <<waitVars, ledgerVars, runVars, sendVars, transmissionVars,
                   continuousVars, metricsVars, storeVars, extraVars>>

\* queryPacketAcknowledgement of the query helper finds the
\* acknowledgement and scans the blocks for the delivery.
HelperDetects ==
    /\ deliveryTx # NoTx
    /\ detected = NotDetected
    /\ \E scanOk \in BOOLEAN :
          detected' = AckFromHelper(TestSequence, {deliveryTx}, LowHeight,
                                    scanOk, searchSleep)
    /\ UNCHANGED deliveryTx
    /\ UNCHANGED <<waitVars, ledgerVars, runVars, sendVars, transmissionVars,
                   continuousVars, metricsVars, storeVars, extraVars>>

NextDetect ==
    \/ RelayerDelivers
    \/ SearchDetects
    \/ HelperDetects

SpecDetect == InitRun /\ [][NextDetect]_vars

(***************************************************************************)
(* Claims about waitForAcknowledgement (SpecWait, SpecWaitFair).           *)
(***************************************************************************)
Done == pc = "done"
Elapsed == now - startTime

\* C1: when no tick finds a match, waitForAcknowledgement returns exactly
\* one record, with acknowledged = false, no sooner than the timeout and no
\* later than the timeout plus one poll interval.
C1_TimeoutWithinOnePollInterval ==
    (Done /\ returned # <<>> /\ ~returned[1].acknowledged) =>
        /\ Len(returned) = 1
        /\ Elapsed >= timeout
        /\ Elapsed <= timeout + pollInterval

\* C2 (as stated): once the delivery is committed three blocks ahead of the
\* height a tick sampled, the timeout not yet elapsed, the call returns
\* acknowledged = true.
C2_AheadDeliveryAlwaysAcknowledged ==
    (Done /\ aheadCommitted) => returned[1].acknowledged

\* C2 (amended): when the tx_search of the tick that sampled height H is
\* answered successfully while the delivery is committed at height H + 3,
\* that tick ends the polling with acknowledged = true and the delivery
\* transaction as target.
C2_AheadDeliveryFoundOnAnswer ==
    [][(/\ pc = "txSearch"
        /\ pc' # "txSearch"
        /\ searchResponse' = "ok"
        /\ \E t \in OurTxs : t.height = maxHeight + 3)
       => (/\ pc' = "done"
           /\ Len(returned') = 1
           /\ returned'[1].acknowledged
           /\ \E t \in OurTxs : /\ t.height = maxHeight + 3
                                /\ returned'[1].targetTxHash = t.hash)]_vars

C2_Witness ==
    /\ Done
    /\ returned # <<>>
    /\ returned[1].via = "search"
    /\ maxHeight = heightAtSample
    /\ \E t \in OurTxs : t.height = maxHeight + 3

\* C3: the height filter of every tx_search query lies within the window
\* of searchBuffer blocks around the destination height of that tick.
C3_QueryWithinWindowOfHeight ==
    searchQuery # NoRange =>
        /\ searchQuery.lo >= heightAtSample - searchBuffer
        /\ searchQuery.hi <= heightAtSample + searchBuffer

\* C4: no detection step scans more than 2 * searchBuffer + 1 blocks, nor
\* blocks further than searchBuffer below the height of that tick.
C4_ScanBoundedByWindow ==
    scanned # NoRange =>
        /\ scanned.hi - scanned.lo + 1 <= 2 * searchBuffer + 1
        /\ scanned.lo >= scanned.hi - searchBuffer

\* C5: a failed strategy counts as no match: a failed search is followed by
\* the source-ledger query in the same tick, a failed source-ledger query
\* by the poll sleep and the next evaluation of the loop condition, neither
\* returns a record, and an unacknowledged return only happens on timeout.
C5_FailureIsNoMatch ==
    /\ [][/\ (pc = "txSearch" /\ pc' # pc /\ searchResponse' = "fail")
             => (pc' = "ackQuery" /\ returned' = returned)
          /\ (pc = "ackQuery" /\ pc' # pc
                /\ ackResponse' \in {"throw", "nonzero"})
             => (pc' = "pollSleep" /\ returned' = returned)
          /\ (pc = "pollSleep" /\ pc' # pc) => pc' = "loop"]_vars
    /\ [](\A k \in 1..Len(returned) :
            ~returned[k].acknowledged => Elapsed >= timeout)

C5_Witness ==
    /\ Done
    /\ ticks >= 2
    /\ searchResponse = "fail"
    /\ ackResponse = "ack"
    /\ returned[1].acknowledged

\* C6: in each tick the search runs first and the source-ledger query only
\* after the search reported no match; the first match ends the polling,
\* and the record returned carries the evidence of the strategy that
\* matched.
C6_FirstMatchWins ==
    /\ pc \in {"ackQuery", "findTarget", "pollSleep"}
          => (searchResponse # "none" /\ ~receiverChainRecv.found)
    /\ pc \in {"getHeight", "txSearch"} => ackResponse = "none"
    /\ returned # <<>> => (Done /\ Len(returned) = 1)
    /\ \A k \in 1..Len(returned) :
          LET r == returned[k]
          IN  /\ r.via = "search" =>
                  /\ r.acknowledged
                  /\ receiverChainRecv.found
                  /\ ackResponse = "none"
                  /\ r.targetTxHash = receiverChainRecv.txHash
                  /\ r.relayerAddress = receiverChainRecv.relayerAddress
                  /\ r.memo = receiverChainRecv.memo
                  /\ \E t \in OurTxs :
                        /\ t.hash = r.targetTxHash
                        /\ r.relayerAddress = SearchRelayerAddress(t)
                        /\ r.memo \in {RelayerMemo(t.memo), UndefinedMemo}
              /\ r.via = "ack" =>
                  /\ r.acknowledged
                  /\ ackResponse = "ack"
                  /\ ~receiverChainRecv.found
                  /\ r.memo = UndefinedMemo
                  /\ \/ r.targetTxHash = Undefined
                     \/ \E t \in OurTxs : /\ t.hash = r.targetTxHash
                                          /\ t.sender = r.relayerAddress
              /\ r.acknowledged = (r.via # "timeout")

C6_Witness ==
    /\ Done
    /\ returned # <<>>
    /\ returned[1].via = "search"
    /\ returned[1].memo = <<"relayed-by:", "val1">>
    /\ returned[1].relayerAddress = "relayer1"

\* C7: every call returns exactly one record, acknowledged or timed out,
\* after a number of ticks bounded by the timeout.
C7_ReturnsOnce ==
    /\ <>[](Done /\ Len(returned) = 1)
    /\ [](Len(returned) <= 1)
    /\ [](ticks = 0 \/ (ticks - 1) * (searchSleep + pollInterval) < timeout)

C7_Witness == Done /\ ticks >= 2 /\ ~returned[1].acknowledged

(***************************************************************************)
(* Claims about the test modes (SpecRun).                                  *)
(***************************************************************************)
Returned == rpc = "returned"

\* C8: every successful observation was merged from a record with ackTime
\* set, and its latency is not negative.
C8_SuccessHasAckTime ==
    /\ Len(mergedAcks) = Len(relayerLogs)
    /\ \A k \in 1..Len(relayerLogs) :
          relayerLogs[k].success =>
              /\ mergedAcks[k].ackTime # NoTime
              /\ relayerLogs[k].latency >= 0

C8_Witness ==
    /\ Returned
    /\ mode = "run"
    /\ \E k \in 1..Len(relayerLogs) :
          relayerLogs[k].success /\ mergedAcks[k].via = "ack"
    /\ \E k \in 1..Len(relayerLogs) :
          /\ relayerLogs[k].success /\ mergedAcks[k].via = "search"
          /\ relayerLogs[k].latency > 0

\* C9: every probe submission attempted leaves exactly one observation in
\* the log, whatever its outcome.
C9_OneObservationPerProbe ==
    Returned => Len(relayerLogs) = probes

\* C10: when run() or runSingleTransferTest() returns, the log file holds
\* the in-memory log, file writes succeeding.
C10_ReturnedMeansSaved ==
    (Returned /\ ~writeFailed) => logFile = SavedLogs(relayerLogs)

(***************************************************************************)
(* sendIBCTransfer and extractPacketSequence, checked under SpecSend.      *)
(***************************************************************************)
CallEnded == sendResult # NotCalled
\* The raw log extractPacketSequence is given in the call.
GivenLog == OrEmpty(broadcast.rawLog)
\* The patterns that match the given log.
Matching == {k \in 1..Len(patterns) : Match(patterns[k], GivenLog) # 0}
\* The numbers of the given log that lie in the plausible range.
Plausible ==
    {k \in 1..Len(numberMatches(GivenLog)) :
        /\ ParseInt(numberMatches(GivenLog)[k]) > 0
        /\ ParseInt(numberMatches(GivenLog)[k]) < plausibleLimit}

\* C11: sendIBCTransfer never throws; a broadcast that raises or answers
\* with a code other than 0 gives success = false with an error text and
\* no sequence, and success = true is returned only for code 0.
C11_SendNeverThrows ==
    CallEnded =>
       /\ ~sendResult.raised
       /\ (broadcast.height = "throws" \/ broadcast.sign = "throws"
              \/ broadcast.code # 0)
            => /\ ~sendResult.value.success
               /\ sendResult.value.error # Undefined
               /\ sendResult.value.sequence = NoSequence
       /\ sendResult.value.success
            => (broadcast.sign = "answered" /\ broadcast.code = 0)

\* signAndBroadcast raised and the call returned a failed result.
C11_Witness ==
    /\ CallEnded
    /\ broadcast.sign = "throws"
    /\ ~sendResult.raised
    /\ ~sendResult.value.success

\* C12: extractPacketSequence returns 0 only when no pattern matches the
\* raw log and the scan of its numbers finds none in the accepted range.
C12_ZeroOnlyWhenNothingFound ==
    (CallEnded /\ extracted = 0) => (Matching = {} /\ Plausible = {})

\* C13: extractPacketSequence returns the number captured by the first
\* pattern of the list that matches; with no pattern matching it returns
\* the first number of the log in the range 1..999999, else 0; and it
\* returns for every raw log.
C13_FirstPatternThenScan ==
    (CallEnded /\ broadcast.sign = "answered" /\ broadcast.code = 0) =>
       /\ ~sendResult.raised
       /\ sendResult.value.sequence = extracted
       /\ extracted =
            IF Matching # {}
            THEN ParseInt(GivenLog[Match(patterns[Min(Matching)],
                                         GivenLog)].d)
            ELSE IF Plausible # {}
                 THEN ParseInt(numberMatches(GivenLog)[Min(Plausible)])
                 ELSE 0

\* No pattern matches a log of two numbers and the scan skips the first,
\* which is out of range, and returns the second.
C13_Witness ==
    /\ CallEnded
    /\ broadcast.code = 0
    /\ broadcast.sign = "answered"
    /\ Matching = {}
    /\ Len(numberMatches(GivenLog)) = 2
    /\ Plausible = {2}
    /\ extracted = TestSequence

C16_DelayBetweenSubmissions ==
    (rpc = "batchSend" /\ i > 0) =>
        now >= transferResult.timestamp + batchSleep

(***************************************************************************)
(* Submissions from the shared signing account.                            *)
(***************************************************************************)
\* C15: at no time are two probe submissions from the signing account in
\* flight.
C15_OneSubmissionInFlight == Cardinality(pending) <= 1

(***************************************************************************)
(* The continuous-transfer command, checked under SpecContinuous.          *)
(***************************************************************************)
\* The process has ended after one interrupt only.
StoppedByOneInterrupt == cpc = "exited" /\ interrupts = 1

\* After the first interrupt no test is started, a wait in progress ends
\* within one poll, and the process ends through the summary.
StopsAfterInFlight ==
    /\ isShuttingDown => count = countAtInterrupt
    /\ StoppedByOneInterrupt => exitVia = "summary"
    /\ (StoppedByOneInterrupt /\ phaseAtInterrupt = "waiting")
         => (now <= interruptAt + shutdownPoll /\ now <= waitUntil)

\* C17: after the first interrupt no new test is started, the test in
\* flight runs to completion with its observation appended and saved, a
\* wait in progress is cut short, and the process ends through the
\* summary.
C17_GracefulStop ==
    /\ StopsAfterInFlight
    /\ (StoppedByOneInterrupt /\ phaseAtInterrupt = "test")
         => /\ Len(relayerLogs) = logsAtStart + 1
            /\ logFile = SavedLogs(relayerLogs)

\* C17 as the code has it: the observation of the test in flight is
\* appended when the test returns and is in the log file unless a write
\* failed; a test that throws (its clients could not be initialised)
\* appends nothing.
C17_GracefulStopWhenTestReturns ==
    /\ StopsAfterInFlight
    /\ (StoppedByOneInterrupt /\ phaseAtInterrupt = "test")
         => IF rpc = "returned"
            THEN /\ Len(relayerLogs) = logsAtStart + 1
                 /\ ~writeFailed => logFile = SavedLogs(relayerLogs)
            ELSE rpc = "thrown" /\ Len(relayerLogs) = logsAtStart

\* The first of two tests was interrupted in flight, returned a successful
\* observation, and the process ended through the summary without the
\* second test.
C17_Witness ==
    /\ StoppedByOneInterrupt
    /\ phaseAtInterrupt = "test"
    /\ maxCount = MaxTests
    /\ count = 1
    /\ successCount = 1
    /\ exitVia = "summary"
    /\ logFile = SavedLogs(relayerLogs)

\* C18: the second interrupt ends the process at once with exit code 1,
\* whatever is in flight; the first interrupt never ends the process.
C18_SecondInterruptForcesExit ==
    [][interrupts' = interrupts + 1 =>
          IF interrupts >= 1
          THEN cpc' = "exited" /\ exitCode' = 1 /\ exitVia' = "force"
          ELSE cpc' = cpc /\ exitCode' = NoExit /\ isShuttingDown']_vars

\* The second interrupt ended the process while the first test was
\* polling for the acknowledgement of its probe.
C18_Witness ==
    /\ exitVia = "force"
    /\ exitCode = 1
    /\ interrupts = 2
    /\ count = 1
    /\ transferResult.success
    /\ Len(relayerLogs) = logsAtStart

(***************************************************************************)
(* generatePerformanceMetrics, checked under SpecMetrics.                  *)
(***************************************************************************)
\* The entries of a result for the groups other than `moniker`.
OtherGroups(ms, moniker) ==
    SelectSeq(ms, LAMBDA g : g.validatorMoniker # moniker)
\* The observation appended between the last two calls.
Appended == lastLog[Len(lastLog)]

C20_MetricsLeaveLog ==
    [][mcalls' = mcalls + 1 => relayerLogs' = relayerLogs]_vars

\* A call has sorted the array of a group whose observations were not in
\* the order of their times.
C20_Witness ==
    /\ mcalls >= 1
    /\ \E k \in 1..Len(metrics) :
          GroupArray(lastLog, metrics[k].validatorMoniker)
            # SortByTime(GroupArray(lastLog, metrics[k].validatorMoniker))
    /\ relayerLogs = lastLog

\* The positions of a group's observations in a log, and of the
\* successful ones among them.
HasLabel(log) == log.memoIdentifier \notin {UndefinedMemo, <<>>}
Members(log, moniker) ==
    {j \in 1..Len(log) : /\ HasLabel(log[j])
                         /\ Moniker(log[j].memoIdentifier) = moniker}
Successes(log, moniker) == {j \in Members(log, moniker) : log[j].success}

\* C21: the successRate of every group is exactly 100 * k / n, the
\* Number that quotient evaluates to, for its n observations of which k
\* succeeded.
C21_SuccessRateExact ==
    mcalls >= 1 =>
       \A g \in 1..Len(metrics) :
          metrics[g].successRate
            = Divide(100 * Cardinality(Successes(lastLog,
                                                 metrics[g].validatorMoniker)),
                     Cardinality(Members(lastLog,
                                         metrics[g].validatorMoniker)))

\* The observations of a group in a log, in stored order.
GroupOf(log, moniker) ==
    SelectSeq(log, LAMBDA l : /\ HasLabel(l)
                              /\ Moniker(l.memoIdentifier) = moniker)
\* A sequence in the order of testTime, observations of equal time in the
\* order they had.
Chronological(seq) ==
    LET rank(j) == Cardinality({k \in 1..Len(seq) :
                       \/ seq[k].testTime < seq[j].testTime
                       \/ seq[k].testTime = seq[j].testTime /\ k <= j})
    IN  [r \in 1..Len(seq) |->
            seq[CHOOSE j \in 1..Len(seq) : rank(j) = r]]
\* The length of the longest run of failed observations.
LongestFailureRun(seq) ==
    LET runs == {<<a, b>> \in (1..Len(seq)) \X (1..Len(seq)) :
                    a <= b /\ \A k \in a..b : ~seq[k].success}
    IN  IF runs = {} THEN 0
        ELSE CHOOSE n \in {r[2] - r[1] + 1 : r \in runs} :
                \A r \in runs : r[2] - r[1] + 1 <= n

\* C22: continuousFailures of every group is the longest run of
\* consecutive failed observations of the group taken in the order of
\* testTime, whatever their order in the stored log.
C22_ContinuousFailuresChronological ==
    mcalls >= 1 =>
       \A g \in 1..Len(metrics) :
          metrics[g].continuousFailures
            = LongestFailureRun(Chronological(
                  GroupOf(lastLog, metrics[g].validatorMoniker)))

\* A group stored as [fail at 2000, success at 1000, fail at 2000]: one
\* failure in a row as stored, two in the order of time.
C22_Witness ==
    /\ mcalls >= 1
    /\ \E g \in 1..Len(metrics) :
          /\ metrics[g].continuousFailures = 2
          /\ LongestFailureRun(GroupOf(lastLog, metrics[g].validatorMoniker))
               = 1

\* C23: observations without a label belong to no group and stay in the
\* log; the totalTests of the groups add up to the number of labelled
\* observations, each labelled observation is counted by exactly one
\* group, and totalTests = successfulRelays + failedRelays.
C23_GroupsPartitionLabelled ==
    mcalls >= 1 =>
       /\ Sum([g \in 1..Len(metrics) |-> metrics[g].totalTests])
            = Cardinality({j \in 1..Len(lastLog) : HasLabel(lastLog[j])})
       /\ \A j \in 1..Len(lastLog) :
             IF HasLabel(lastLog[j])
             THEN Cardinality({g \in 1..Len(metrics) :
                     metrics[g].validatorMoniker
                       = Moniker(lastLog[j].memoIdentifier)}) = 1
             ELSE /\ j <= Len(relayerLogs)
                  /\ relayerLogs[j] = lastLog[j]
       /\ \A g \in 1..Len(metrics) :
             /\ metrics[g].totalTests
                  = Cardinality(Members(lastLog, metrics[g].validatorMoniker))
             /\ metrics[g].totalTests
                  = metrics[g].successfulRelays + metrics[g].failedRelays

\* A call on a log of three observations, one without a label between
\* two of different groups.
C23_Witness ==
    /\ mcalls >= 1
    /\ Len(lastLog) = 3
    /\ ~HasLabel(lastLog[2])
    /\ Len(metrics) = 2
    /\ metrics[1].totalTests = 1
    /\ metrics[2].totalTests = 1
    /\ relayerLogs = lastLog

\* The latencies of the successful observations of a group.
RECURSIVE Total(_, _)
Total(log, S) ==
    IF S = {} THEN 0
    ELSE LET j == CHOOSE x \in S : TRUE
         IN  log[j].latency + Total(log, S \ {j})

\* C24: averageLatency, maxLatency and minLatency of a group are the
\* mean, the largest and the smallest latency of its successful
\* observations, all 0 when it has none; so
\* minLatency <= averageLatency <= maxLatency.
C24_LatencyOfSuccessfulOnly ==
    mcalls >= 1 =>
       \A g \in 1..Len(metrics) :
          LET ok == Successes(lastLog, metrics[g].validatorMoniker)
              avg == metrics[g].averageLatency
          IN  /\ IF ok = {}
                 THEN /\ avg.num = 0
                      /\ metrics[g].maxLatency = 0
                      /\ metrics[g].minLatency = 0
                 ELSE /\ avg.num * Cardinality(ok)
                           = Total(lastLog, ok) * avg.den
                      /\ \E j \in ok :
                            metrics[g].maxLatency = lastLog[j].latency
                      /\ \E j \in ok :
                            metrics[g].minLatency = lastLog[j].latency
                      /\ \A j \in ok :
                            /\ lastLog[j].latency <= metrics[g].maxLatency
                            /\ lastLog[j].latency >= metrics[g].minLatency
              /\ metrics[g].minLatency * avg.den <= avg.num
              /\ avg.num <= metrics[g].maxLatency * avg.den

\* A group of two successful observations of different latency and one
\* failed observation that took longer than both.
C24_Witness ==
    /\ mcalls >= 1
    /\ \E g \in 1..Len(metrics) :
          /\ metrics[g].totalTests = 3
          /\ metrics[g].failedRelays = 1
          /\ metrics[g].minLatency < metrics[g].maxLatency
          /\ metrics[g].averageLatency.num * 2
               = (metrics[g].minLatency + metrics[g].maxLatency)
                   * metrics[g].averageLatency.den
          /\ \E j \in Members(lastLog, metrics[g].validatorMoniker) :
                /\ ~lastLog[j].success
                /\ lastLog[j].latency > metrics[g].maxLatency

(***************************************************************************)
(* saveTestResults and loadExistingLogs, checked under SpecStore.          *)
(***************************************************************************)
\* The observation list the log file holds, read the way the program
\* reads it.
PersistedLog == loadExistingLogs(logFileState, logFile).logs

\* C25: after every saveTestResults call the metrics file is what
\* generatePerformanceMetrics gives on the log the log file holds, also
\* when one of the two writes has failed.
C25_MetricsFileMatchesLogFile ==
    saveOutcome # "none" =>
       metricsFile
         = SavedMetrics(generatePerformanceMetrics(PersistedLog).metrics)

C27_LoadNeverFails ==
    [][(~loaded /\ loaded') =>
          /\ rpc' = rpc
          /\ IF logFileState = "json"
             THEN /\ Len(relayerLogs') = Len(logFile)
                  /\ \A k \in 1..Len(logFile) :
                        \A f \in DOMAIN logFile[k] :
                           IF f = "testTime"
                           THEN logFile[k][f]
                                  = <<"iso", relayerLogs'[k][f]>>
                           ELSE logFile[k][f] = relayerLogs'[k][f]
             ELSE relayerLogs' = <<>>]_vars

\* The constructor has completed on a log file that is no JSON, and a
\* test has started.
C27_Witness ==
    /\ loaded
    /\ logFileState = "corrupt"
    /\ relayerLogs = <<>>
    /\ rpc = "init"

\* C28: a failed write of the log file or of the metrics file does not
\* leave saveTestResults: the in-memory log is as it was, the test goes on
\* to its cleanup and returns its observation.
C28_SaveFailureIsSwallowed ==
    /\ [][(rpc = "save" /\ rpc' # rpc /\ saveOutcome' # "ok") =>
             (rpc' = "cleanup" /\ relayerLogs' = relayerLogs)]_vars
    /\ []((saveOutcome \in {"logFails", "metricsFails"}
             /\ rpc \in {"returned", "thrown"}) =>
            /\ rpc = "returned"
            /\ relayerLogs # <<>>
            /\ relayerLogs[Len(relayerLogs)].testTime = now
            /\ relayerLogs[Len(relayerLogs)].txHash
                 \in {transferResult.txHash, "N/A"})

\* The test has returned the observation of an acknowledged probe after
\* the write of the metrics file had failed.
C28_Witness ==
    /\ rpc = "returned"
    /\ saveOutcome = "metricsFails"
    /\ relayerLogs # <<>>
    /\ relayerLogs[Len(relayerLogs)].success
    /\ logFile = SavedLogs(relayerLogs)

(***************************************************************************)
(* The relay label and the relayer address, checked under SpecDetect.      *)
(***************************************************************************)
HasTarget == detected # NotDetected /\ detected.targetTxHash # Undefined

\* C29: no acknowledgement record carries as relay label one of the
\* system's own probe memos (the default marker, a batch or a stability
\* probe memo), on either detection path.
C29_NoProbeMemoAsLabel ==
    detected # NotDetected => ~IsProbeMemo(detected.memo)

\* C30: on every path that yields a target transaction the relayer
\* address is the sender attribute of the message event when there is
\* one, otherwise the signer of the MsgRecvPacket message when present,
\* otherwise 'unknown' or absent.
C30_SenderThenSignerThenUnknown ==
    HasTarget =>
       detected.relayerAddress
         = IF deliveryTx.sender \notin {NoSender, ""} THEN deliveryTx.sender
           ELSE IF deliveryTx.recvFirst /\ deliveryTx.signer # ""
                THEN deliveryTx.signer
                ELSE "unknown"

\* C31: within one instance the observation log is append-only: every
\* operation after the constructor (a test, saving, the metrics, the
\* report made of getRelayerLogs) leaves the earlier log as a prefix of
\* the log.
IsPrefix(s, t) == Len(s) <= Len(t) /\ SubSeq(t, 1, Len(s)) = s
Constructing == ~loaded /\ loaded'
C31_LogIsAppendOnly ==
    [][~Constructing => IsPrefix(relayerLogs, relayerLogs')]_vars
C31_Witness ==
    /\ summary.done
    /\ saveOutcome = "ok"
    /\ Len(relayerLogs) = MaxStoredLogs + 1
    /\ summary.recentLogs = Reverse(relayerLogs)
    /\ summary.recentLogs # relayerLogs

\* C32: the basic relay test submits a probe only after the channel was
\* observed in state OPEN; otherwise it submits none and fails.
ObservedOpen ==
    channelQuery.done /\ channelQuery.rest = "ok"
                      /\ channelQuery.state = "STATE_OPEN"
C32_ProbeOnlyOnObservedOpen ==
    rpc \in {"basicSend", "basicWait"} => ObservedOpen

(***************************************************************************)
(* The loop of continuous-transfer, checked under SpecContinuous.          *)
(***************************************************************************)
\* C33: with a maximum count c > 0 at most c tests are started and the
\* loop ends after the c-th; with c = 0 the loop ends only on an interrupt
\* or on the break of --stop-on-error.
C33_MaxCountBoundsTests ==
    /\ maxCount > 0 => count <= maxCount
    /\ (maxCount > 0 /\ count = maxCount /\ cpc # "test") => cpc = "exited"
    /\ (maxCount = 0 /\ cpc = "exited" /\ exitVia # "usage")
         => (isShuttingDown \/ (stopOnError /\ errorCount > 0))
\* A command with a count below the cap of the model ran that many tests,
\* all successful, and ended through the summary without an interrupt.
C33_Witness ==
    /\ maxCount = MaxTests - 1
    /\ count = maxCount
    /\ successCount = count
    /\ exitVia = "summary"
    /\ interrupts = 0

\* C34: with --stop-on-error no test is started once a test has failed or
\* crashed.
C34_NoTestAfterError ==
    [][(stopOnError /\ (errorCount > 0 \/ errorCount' > 0))
          => (count' = count /\ cpc' = "exited")]_vars
\* The first of the tests allowed failed and the loop ended at once.
C34_Witness ==
    /\ stopOnError
    /\ maxCount # 1
    /\ count = 1
    /\ errorCount = 1
    /\ exitVia = "summary"
    /\ interrupts = 0

\* C39: after each completed iteration successCount + errorCount = count,
\* and the process exits with code 0 exactly if errorCount = 0.
IterationsCounted ==
    /\ (cpc = "waiting" \/ exitVia = "summary")
         => successCount + errorCount = count
    /\ cpc = "test" => successCount + errorCount = count - 1
C39_CountsAndExitCode ==
    /\ IterationsCounted
    /\ (cpc = "exited" /\ exitVia # "usage")
         => (exitCode = 0 <=> errorCount = 0)
\* C39 as the code has it: the exit after the summary has code 0 exactly
\* if errorCount = 0; the forced exit of a second interrupt and the exit
\* for an interval below the minimum have code 1 whatever the counters.
C39_CountsAndSummaryExitCode ==
    /\ IterationsCounted
    /\ exitVia = "summary" => (exitCode = 0 <=> errorCount = 0)
    /\ exitVia \in {"force", "usage"} => exitCode = 1
\* Two tests ran, one failed, and the summary exit had code 1.
C39_Witness ==
    /\ exitVia = "summary"
    /\ count = MaxTests
    /\ successCount = MaxTests - 1
    /\ errorCount = 1
    /\ exitCode = 1

\* C36: every observation the tests append with a relay label has
\* success = true; so, from an empty log, every group of the metrics
\* saveTestResults writes has failedRelays = 0, successRate = 100 and
\* continuousFailures = 0.
Hundred == Divide(100, 1)
C36_LabelledMeansSuccessful ==
    /\ \A k \in 1..Len(relayerLogs) :
          Labelled(relayerLogs[k]) => relayerLogs[k].success
    /\ \A g \in 1..Len(metricsFile) :
          /\ metricsFile[g].failedRelays = 0
          /\ metricsFile[g].successRate = Hundred
          /\ metricsFile[g].continuousFailures = 0
\* The saved metrics have a group of two labelled observations, and the
\* log also holds an observation of a probe that timed out.
C36_Witness ==
    /\ Len(metricsFile) = 1
    /\ metricsFile[1].totalTests >= 2
    /\ \E k \in 1..Len(relayerLogs) : ~relayerLogs[k].success

\* C37: the maxConsecutiveFailures runStabilityTest reports is the length
\* of the longest run of consecutive failed iterations (submission
\* rejected or acknowledgement timed out), and the test passes only if
\* that length is at most 3 and the success rate at least 90%.
Greatest(ns) == CHOOSE x \in ns : \A y \in ns : y <= x
FailureRunEndingAt(rs, k) ==
    IF rs[k] THEN 0
    ELSE k - Greatest({0} \cup {j \in 1..k : rs[j]})
LongestRunOfFailures(rs) ==
    Greatest({0} \cup {FailureRunEndingAt(rs, k) : k \in 1..Len(rs)})
C37_MaxConsecutiveFailuresIsLongestRun ==
    stabilityResult.done =>
       /\ stabilityResult.maxConsecutiveFailures = LongestRunOfFailures(results)
       /\ stabilityResult.success =>
             /\ LongestRunOfFailures(results) <= maxAllowedFailures
             /\ 100 * stabilityResult.successfulTests
                  >= passRate * stabilityResult.totalTests

\* C38: after cleanup every connection that connect and setupWallet of
\* the two clients opened is closed, so the open connections do not grow
\* with the iterations of continuous-transfer.
C38_CleanupClosesEveryConnection ==
    rpc \in {"returned", "thrown"} => open = {}

\* C35: under any interleaving of start, stop and status invocations at
\* most one background continuous test of the directory runs, and a start
\* that finds one running launches nothing.
C35_OneBackgroundTestPerDirectory ==
    /\ Cardinality(alive) <= 1
    /\ \A k \in 1..Len(invocations) :
          invocations[k].at = "refused" => invocations[k].pid = NoPid

====
